---- MODULE Spec2Model ----
(***************************************************************************)
(* Verification model of the FAEN -> CDE injector.                         *)
(*                                                                         *)
(* Part 1 (specification Spec): the FAEN API client (src/faen_client.py,   *)
(* src/mrae.py): credential exchange, single and chunked queries, seen     *)
(* request by request.  Dates are day numbers; every datetime the client   *)
(* handles is a midnight, so a datetime is the day number of its date.     *)
(*                                                                         *)
(* Part 2 (specification SpecUpload): registration of the dataset          *)
(* descriptions, retrieval of the persisted time series, field mapping and *)
(* datapoint upload (src/main.py, src/cde_client.py, src/edg.py).          *)
(***************************************************************************)
EXTENDS Integers, Sequences, FiniteSets, TLC

\* ------------------------------------------------------------------ bounds
MaxStartDay == 2
MaxSpan == 21
MaxOps == 2
DEFAULT_BATCH_SIZE == 2
MaxDatapoints == 3
MaxBatchSize == 3
MaxDescriptors == 2
MaxResolves == 3
MaxRecords == 2
MaxRows == 3
MantissaBits == 4

\* ------------------------------------------------------- program constants
chunk_size_days == 10
ChunkThresholdDays == 10
NoToken == 0
NoDate == 0

VARIABLES
    start_date,      \* user range start (inclusive), a day number
    end_date,        \* user range end (documented exclusive), a day number
    access_token,    \* FaenApiClient.access_token; NoToken is None
    authCount,       \* credential exchanges sent so far in the run
    pc,              \* position of the caller / the running client method
    op,              \* the client method that is running
    query,           \* the query document handed to the method
    mode,            \* "none" | "single" | "chunked"
    current_date,    \* loop variable of the chunked query
    chunk_end_date,  \* loop variable of the chunked query
    all_records,     \* accumulator of the chunked query
    requests,        \* data requests sent by the running method, in order
    responses,       \* the outcomes of those requests, in order
    inflight,        \* data requests sent and not yet answered
    opAuth,          \* outcomes of the credential exchanges of the running method
    result,          \* value returned by the method
    opsDone          \* methods completed in this run

VARIABLES
    NON_INTERACTIVE_MODE, \* main.py global: prompts are auto-confirmed
    id_style,             \* how the platform renders datasetFieldID: "int" | "str"
    datasets_to_process,  \* main's list: [type, has_file_path]
    upc,                  \* position of main in the upload phase
    idx,                  \* index of the running for-loop
    successful_uploads,   \* main's list: [type, dataset_id]
    cde_series,           \* platform: persisted time series per registered dataset
    timeseries_lists,     \* per dataset: the answer to its get_timeseries call
    sent_rows,            \* per dataset: the rows put into upload requests
    datapoint_result,     \* per dataset: the UploadResult of add_datapoints_batch
    declined              \* the confirmations answered no: "upload", "datapoints",
                          \* and the type of each dataset whose save was declined

uvars == <<NON_INTERACTIVE_MODE, id_style, datasets_to_process, upc, idx,
           successful_uploads, cde_series, timeseries_lists, sent_rows,
           datapoint_result, declined>>

qvars == <<start_date, end_date, access_token, authCount, pc, op, query, mode,
           current_date, chunk_end_date, all_records, requests, responses,
           inflight, opAuth, result, opsDone>>

Min(a, b) == IF a < b THEN a ELSE b

QueryKinds == {"consumption", "generation", "weather", "mrae", "user"}
ChunkableKinds == {"consumption", "generation", "weather"}

\* ------------------------------------------------------------ query builders
\* create_full_day_query: $gte = midnight of start_date, $lt = midnight of
\* the day AFTER end_date.
create_full_day_query(s, e) ==
    [field |-> "datetime", gte |-> s, lt |-> e + 1]

create_weather_query(s, e) ==
    [field |-> "datetime_utc", gte |-> s, lt |-> e + 1]

\* MRAEClient.query_mrae: start_date / end_date passed through as parameters.
mrae_params(s, e) ==
    [field |-> "params", gte |-> s, lt |-> e]

NoQuery == [field |-> "none", gte |-> 0, lt |-> 0]

\* The query main builds for each client method (main.py 458-502).
QueryFor(kind, s, e) ==
    CASE kind \in {"consumption", "generation"} -> create_full_day_query(s, e)
      [] kind = "weather" -> create_weather_query(s, e)
      [] kind = "mrae" -> mrae_params(s, e)
      [] OTHER -> NoQuery

\* The key under which each method looks for the {$gte, $lt} pair.
DatetimeKey(kind) == IF kind = "weather" THEN "datetime_utc" ELSE "datetime"

\* `if date_diff.days > 10: return self._query_*_chunked(...)`
UsesChunking(kind, q) ==
    /\ kind \in ChunkableKinds
    /\ q.field = DatetimeKey(kind)
    /\ (q.lt - q.gte) > ChunkThresholdDays

\* `if not self.access_token:` at the head of every query method
NeedsAuthAlways(tok) == TRUE
NeedsAuthNever(tok) == FALSE
NeedsAuth(tok) == tok = NoToken

\* `while current_date < end_date`
LoopContinues(cur, end) == cur < end

\* `chunk_end_date = min(current_date + timedelta(days=chunk_size_days), end_date)`
ChunkEnd(cur, end) == Min(cur + chunk_size_days, end)

\* `if chunk_record_count > 0: all_records.extend(chunk_data)`
ExtendRecordsReplace(all, chunk_data) ==
    IF Len(chunk_data) > 0 THEN chunk_data ELSE all
ExtendRecords(all, chunk_data) ==
    IF Len(chunk_data) > 0 THEN all \o chunk_data ELSE all

\* except-block of the chunk request: log and continue with the next chunk
PcAfterChunkFailureRaise == "raised"
PcAfterChunkFailure == "chunk_loop"

\* except-block of the single request: log and `raise`
PcAfterSingleFailureSwallow == "returned"
PcAfterSingleFailure == "raised"

\* session.post / session.get block until the response is there
PcAfterChunkSendAsync == "chunk_loop"
PcAfterChunkSend == "chunk_wait"

\* The request as it leaves the session: the endpoint, the bound pair and the
\* Authorization header the session carries at that moment.
Request(kind, gte, lt, tok) ==
    [kind |-> kind, gte |-> gte, lt |-> lt, auth |-> tok]

\* The upstream's possible answers to a request for [gte, lt): a failure
\* (transport error or error status), or a list of records, each record
\* identified by the day of its timestamp.
ReplyData(gte, lt) ==
    IF gte < lt THEN {<<>>, <<gte>>, <<gte, lt - 1>>} ELSE {<<>>}

Outcomes(gte, lt) ==
    {[ok |-> FALSE, data |-> <<>>]} \cup
    {[ok |-> TRUE, data |-> d] : d \in ReplyData(gte, lt)}

\* ---------------------------------------------------------------- Init
Init ==
    /\ \E s \in 1..MaxStartDay, n \in 0..MaxSpan :
          /\ start_date = s
          /\ end_date = s + n
    /\ access_token = NoToken
    /\ authCount = 0
    /\ pc = "start"
    /\ op = "none"
    /\ query = NoQuery
    /\ mode = "none"
    /\ current_date = 0
    /\ chunk_end_date = 0
    /\ all_records = <<>>
    /\ requests = <<>>
    /\ responses = <<>>
    /\ inflight = 0
    /\ opAuth = <<>>
    /\ result = <<>>
    /\ opsDone = 0

\* ------------------------------------------------------------- actions
\* After the token check: chunked loop or single request.
Route(kind, q) ==
    IF UsesChunking(kind, q)
    THEN /\ mode' = "chunked"
         /\ pc' = "chunk_loop"
         /\ current_date' = q.gte
    ELSE /\ mode' = "single"
         /\ pc' = "single_send"
         /\ current_date' = 0

\* main.py 377: the run's explicit faen_client.authenticate()
MainAuthenticate ==
    /\ pc = "start"
    /\ pc' = "main_auth"
    /\ authCount' = authCount + 1
    /\ UNCHANGED <<start_date, end_date, access_token, op, query, mode,
                   current_date, chunk_end_date, all_records, requests,
                   responses, inflight, opAuth, result, opsDone>>

\* authenticate() returns True (token stored) or False; on False main exits.
MainAuthReply ==
    /\ pc = "main_auth"
    /\ \E ok \in BOOLEAN :
          IF ok
          THEN /\ access_token' = authCount
               /\ pc' = "idle"
          ELSE /\ access_token' = access_token
               /\ pc' = "exit"
    /\ UNCHANGED <<start_date, end_date, authCount, op, query, mode,
                   current_date, chunk_end_date, all_records, requests,
                   responses, inflight, opAuth, result, opsDone>>

\* A query method is entered: query_consumption, query_generation,
\* query_weather, query_mrae (through get_mrae_client) or get_current_user.
CallQuery(kind) ==
    /\ pc \in {"start", "idle"}
    /\ opsDone < MaxOps
    /\ op' = kind
    /\ query' = QueryFor(kind, start_date, end_date)
    /\ all_records' = <<>>
    /\ requests' = <<>>
    /\ responses' = <<>>
    /\ opAuth' = <<>>
    /\ result' = <<>>
    /\ chunk_end_date' = 0
    /\ IF NeedsAuth(access_token)
       THEN /\ pc' = "authenticating"
            /\ authCount' = authCount + 1
            /\ mode' = "none"
            /\ current_date' = 0
       ELSE /\ authCount' = authCount
            /\ Route(kind, QueryFor(kind, start_date, end_date))
    /\ UNCHANGED <<start_date, end_date, access_token, inflight, opsDone>>

\* The credential exchange issued by a query method answers.
AuthReply ==
    /\ pc = "authenticating"
    /\ \E ok \in BOOLEAN :
          /\ opAuth' = Append(opAuth, ok)
          /\ IF ok
             THEN /\ access_token' = authCount
                  /\ Route(op, query)
             ELSE /\ access_token' = access_token
                  /\ pc' = "raised"
                  /\ UNCHANGED <<mode, current_date>>
    /\ UNCHANGED <<start_date, end_date, authCount, op, query, chunk_end_date,
                   all_records, requests, responses, inflight, result, opsDone>>

\* The single request is sent.
SendSingle ==
    /\ pc = "single_send"
    /\ requests' = Append(requests, Request(op, query.gte, query.lt, access_token))
    /\ inflight' = inflight + 1
    /\ pc' = "single_wait"
    /\ UNCHANGED <<start_date, end_date, access_token, authCount, op, query,
                   mode, current_date, chunk_end_date, all_records, responses,
                   opAuth, result, opsDone>>

\* The single request answers: return the data, or re-raise.
SingleReply ==
    /\ pc = "single_wait"
    /\ \E o \in Outcomes(query.gte, query.lt) :
          /\ responses' = Append(responses, o)
          /\ IF o.ok
             THEN /\ result' = o.data
                  /\ pc' = "returned"
             ELSE /\ result' = result
                  /\ pc' = PcAfterSingleFailure
    /\ inflight' = inflight - 1
    /\ UNCHANGED <<start_date, end_date, access_token, authCount, op, query,
                   mode, current_date, chunk_end_date, all_records, requests,
                   opAuth, opsDone>>

\* One turn of the chunk loop up to the request: test, bounds, send.
ChunkSend ==
    /\ pc = "chunk_loop"
    /\ LoopContinues(current_date, query.lt)
    /\ chunk_end_date' = ChunkEnd(current_date, query.lt)
    /\ requests' = Append(requests,
                          Request(op, current_date,
                                  ChunkEnd(current_date, query.lt), access_token))
    /\ inflight' = inflight + 1
    /\ pc' = PcAfterChunkSend
    /\ UNCHANGED <<start_date, end_date, access_token, authCount, op, query,
                   mode, current_date, all_records, responses, opAuth, result,
                   opsDone>>

\* The chunk request answers; the loop moves to the next chunk.
ChunkReply ==
    /\ pc = "chunk_wait"
    /\ \E o \in Outcomes(current_date, chunk_end_date) :
          /\ responses' = Append(responses, o)
          /\ IF o.ok
             THEN /\ all_records' = ExtendRecords(all_records, o.data)
                  /\ pc' = "chunk_loop"
             ELSE /\ all_records' = all_records
                  /\ pc' = PcAfterChunkFailure
    /\ inflight' = inflight - 1
    /\ current_date' = chunk_end_date
    /\ UNCHANGED <<start_date, end_date, access_token, authCount, op, query,
                   mode, chunk_end_date, requests, opAuth, result, opsDone>>

\* The loop condition fails: `return all_records`.
ChunkReturn ==
    /\ pc = "chunk_loop"
    /\ ~LoopContinues(current_date, query.lt)
    /\ result' = all_records
    /\ pc' = "returned"
    /\ UNCHANGED <<start_date, end_date, access_token, authCount, op, query,
                   mode, current_date, chunk_end_date, all_records, requests,
                   responses, inflight, opAuth, opsDone>>

\* The method has returned or raised; the caller goes on.
Finish ==
    /\ pc \in {"returned", "raised"}
    /\ pc' = "idle"
    /\ opsDone' = opsDone + 1
    /\ UNCHANGED <<start_date, end_date, access_token, authCount, op, query,
                   mode, current_date, chunk_end_date, all_records, requests,
                   responses, inflight, opAuth, result>>


\* ====================================================== upload phase (part 2)
None == "None"
Truthy(x) == x # None /\ x # ""

DatasetTypes == <<"consumption", "generation", "mrae", "edg">>
TypeSet == {DatasetTypes[i] : i \in 1..Len(DatasetTypes)}

\* A datasetFieldID as the platform renders it: an integer, a string of
\* digits, or absent.
FieldId(style, n) == [style |-> style, n |-> n]
\* `if field_id` / `not field_id`
FieldIdTruthy(f) == f.style # "none" /\ ~(f.style = "int" /\ f.n = 0)

\* A time series as the platform lists it: its own identifier, the field it
\* belongs to, the metadata of the registered placeholder, and the
\* placeholder's locally generated identifier.
Descriptor(id, fid, name, dev, guid) ==
    [id |-> id, fieldId |-> fid, name |-> name, deviceID |-> dev, guid |-> guid]

\* What the platform persists when a description of each type is registered:
\* one series per placeholder of the description.
PersistedSeries(type, style) ==
    CASE type = "consumption" ->
           << Descriptor("cde-cons-1", FieldId(style, 1), "consumedEnergy", "dev1", "uuid-cons-1"),
              Descriptor("cde-cons-2", FieldId(style, 1), "consumedEnergy", "dev2", "uuid-cons-2") >>
      [] type = "generation" ->
           << Descriptor("cde-gen-1", FieldId(style, 1), "generatedEnergy", None, "uuid-gen-1"),
              Descriptor("cde-gen-2", FieldId(style, 2), "outdoorTemperature", None, "uuid-gen-2"),
              Descriptor("cde-gen-3", FieldId(style, 3), "humidityLevel", None, "uuid-gen-3") >>
      [] type = "mrae" ->
           << Descriptor("cde-mrae-1", FieldId(style, 1), "consumedEnergy", None, "uuid-mrae-1") >>
      [] OTHER ->
           << Descriptor("cde-edg-1", FieldId(style, 1), "consumedEnergy",
                         "edg_west_bankya_aggregated", "uuid-edg-1"),
              Descriptor("cde-edg-2", FieldId(style, 2), "generatedEnergy",
                         "edg_west_bankya_aggregated", "uuid-edg-2") >>

\* `ts_id = ts.get("id")`
TsIdFromPlaceholder(ts) == ts.guid
TsId(ts) == ts.id

\* ---- field mappers: fieldName -> timeSeriesId, None where unbound
EmptyMapping(keys) == [k \in keys |-> None]

\* main.py 940-946: consumption, keyed by the device of the series' metadata
ConsumptionKeys == {"dev1", "dev2"}
RECURSIVE consumption_mapping(_, _)
consumption_mapping(timeseries_list, m) ==
    IF timeseries_list = <<>> THEN m
    ELSE LET ts == Head(timeseries_list)
             device_id == ts.deviceID
             ts_id == TsId(ts)
         IN consumption_mapping(Tail(timeseries_list),
               IF Truthy(device_id) /\ Truthy(ts_id) /\ device_id \in ConsumptionKeys
               THEN [m EXCEPT ![device_id] = ts_id] ELSE m)

\* main.py 957-1012: generation + weather, by str(field_id), else by name
GenerationKeys == {"generation", "outdoorTemperature", "humidity"}
GenerationById(f) ==
    CASE f.n = 1 -> "generation"
      [] f.n = 2 -> "outdoorTemperature"
      [] f.n = 3 -> "humidity"
      [] OTHER -> None
GenerationByName(name) ==
    CASE name = "generatedEnergy" -> "generation"
      [] name = "outdoorTemperature" -> "outdoorTemperature"
      [] name = "humidityLevel" -> "humidity"
      [] OTHER -> None
RECURSIVE generation_mapping_IdOnly(_, _)
generation_mapping_IdOnly(timeseries_list, m) ==
    IF timeseries_list = <<>> THEN m
    ELSE LET ts == Head(timeseries_list)
             key == GenerationById(ts.fieldId)
         IN generation_mapping_IdOnly(Tail(timeseries_list),
               IF FieldIdTruthy(ts.fieldId) /\ Truthy(ts.id) /\ key # None
               THEN [m EXCEPT ![key] = ts.id] ELSE m)
RECURSIVE generation_mapping(_, _)
generation_mapping(timeseries_list, m) ==
    IF timeseries_list = <<>> THEN m
    ELSE LET ts == Head(timeseries_list)
             field_id == ts.fieldId
             field_name == ts.name
             ts_id == TsId(ts)
             by_id == GenerationById(field_id)
             by_name == IF Truthy(field_name) THEN GenerationByName(field_name) ELSE None
             key == IF by_id # None THEN by_id ELSE by_name
         IN generation_mapping(Tail(timeseries_list),
               IF FieldIdTruthy(field_id) /\ Truthy(ts_id) /\ key # None
               THEN [m EXCEPT ![key] = ts_id] ELSE m)

\* main.py 1047-1077: MRAE, `field_id in field_map` with the integer key 1
MraeKeys == {"consumedEnergy"}
RECURSIVE mrae_mapping(_, _)
mrae_mapping(timeseries_list, m) ==
    IF timeseries_list = <<>> THEN m
    ELSE LET ts == Head(timeseries_list)
             field_id == ts.fieldId
             ts_id == TsId(ts)
         IN mrae_mapping(Tail(timeseries_list),
               IF FieldIdTruthy(field_id) /\ Truthy(ts_id)
                  /\ field_id.style = "int" /\ field_id.n = 1
               THEN [m EXCEPT !["consumedEnergy"] = ts_id] ELSE m)

\* edg.py 507-552: EDGDataTransformer.create_timeseries_mapping
EdgKeys == {"consumedEnergy", "generatedEnergy"}
EdgFieldMap(n) == IF n = 1 THEN "consumedEnergy" ELSE "generatedEnergy"
RECURSIVE create_timeseries_mapping_NameFallback(_, _)
create_timeseries_mapping_NameFallback(timeseries_list, m) ==
    IF timeseries_list = <<>> THEN m
    ELSE LET ts == Head(timeseries_list)
             by_id == ts.fieldId.style = "int" /\ ts.fieldId.n \in {1, 2}
             key == IF by_id THEN EdgFieldMap(ts.fieldId.n)
                    ELSE IF ts.name \in EdgKeys THEN ts.name ELSE None
         IN create_timeseries_mapping_NameFallback(Tail(timeseries_list),
               IF FieldIdTruthy(ts.fieldId) /\ Truthy(ts.id) /\ key # None
               THEN [m EXCEPT ![key] = ts.id] ELSE m)
RECURSIVE create_timeseries_mapping_FirstWins(_, _)
create_timeseries_mapping_FirstWins(timeseries_list, m) ==
    IF timeseries_list = <<>> THEN m
    ELSE LET ts == Head(timeseries_list)
             by_id == ts.fieldId.style = "int" /\ ts.fieldId.n \in {1, 2}
         IN create_timeseries_mapping_FirstWins(Tail(timeseries_list),
               IF FieldIdTruthy(ts.fieldId) /\ Truthy(ts.id) /\ by_id
                  /\ m[EdgFieldMap(ts.fieldId.n)] = None
               THEN [m EXCEPT ![EdgFieldMap(ts.fieldId.n)] = ts.id] ELSE m)
RECURSIVE create_timeseries_mapping(_, _)
create_timeseries_mapping(timeseries_list, m) ==
    IF timeseries_list = <<>> THEN m
    ELSE LET ts == Head(timeseries_list)
             field_id == ts.fieldId
             ts_id == TsId(ts)
         IN create_timeseries_mapping(Tail(timeseries_list),
               IF FieldIdTruthy(field_id) /\ Truthy(ts_id)
                  /\ field_id.style = "int" /\ field_id.n \in {1, 2}
               THEN [m EXCEPT ![EdgFieldMap(field_id.n)] = ts_id] ELSE m)

BuildMapping(type, timeseries_list) ==
    CASE type = "consumption" ->
           consumption_mapping(timeseries_list, EmptyMapping(ConsumptionKeys))
      [] type = "generation" ->
           generation_mapping(timeseries_list, EmptyMapping(GenerationKeys))
      [] type = "mrae" ->
           mrae_mapping(timeseries_list, EmptyMapping(MraeKeys))
      [] OTHER ->
           create_timeseries_mapping(timeseries_list, EmptyMapping(EdgKeys))

\* `if timeseries_mapping:` -- the dict has at least one entry
MappingNonEmpty(m) == \E k \in DOMAIN m : m[k] # None

\* ---- the retrieved data of each dataset and its transformation
Datapoint(measurement, unit, value, timestamp, ts_id) ==
    [measurement |-> measurement, unit |-> unit, value |-> value,
     timestamp |-> timestamp, timeseries_id |-> ts_id]

\* One (record, field) pair of a source: the mapping key, the measurement, the
\* unit, the value and the timestamp.
Pair(key, measurement, unit, value, timestamp) ==
    [key |-> key, measurement |-> measurement, unit |-> unit, value |-> value,
     timestamp |-> timestamp]

\* The (record, field) pairs of the data main holds for each dataset.
DataPairs(type) ==
    CASE type = "consumption" ->
           << Pair("dev1", "consumedEnergy", "kWh", "1.0", "2025-05-01T00:00:00Z"),
              Pair("dev2", "consumedEnergy", "kWh", "2.0", "2025-05-01T00:00:00Z") >>
      [] type = "generation" ->
           << Pair("generation", "generatedEnergy", "kWh", "1.0", "2025-05-01T00:00:00Z"),
              Pair("outdoorTemperature", "outdoorTemperature", "C", "2.0", "2025-05-01T00:00:00Z"),
              Pair("humidity", "humidityLevel", "%", None, "2025-05-01T00:00:00Z") >>
      [] type = "mrae" ->
           << Pair("consumedEnergy", "consumedEnergy", "kWh", "1.0", "2025-05-01T00:00:00Z") >>
      [] OTHER ->
           << Pair("consumedEnergy", "consumedEnergy", "kWh", "1.0", "2025-05-01T00:00:00Z"),
              Pair("generatedEnergy", "generatedEnergy", "kWh", "0.0", "2025-05-01T00:00:00Z") >>

\* Timestamps as the sources deliver them: a date, a datetime without zone,
\* a datetime ending in Z, a datetime with a +00:00 offset.
TsDate == "2025-05-01"
TsNaive == "2025-05-01T00:00:00"
TsZ == "2025-05-01T00:00:00Z"
TsOffset == "2025-05-01T00:00:00+00:00"
TsOffsetZ == "2025-05-01T00:00:00+00:00Z"
\* A datetime written with a space between date and time, and what appending
\* "T00:00:00Z" to it gives
TsSpace == "2025-05-01 06:30:00"
TsSpaceMidnightZ == "2025-05-01 06:30:00T00:00:00Z"
\* Text that is no timestamp, and what appending "T00:00:00Z" to it gives
Garbage == "not-a-date"
GarbageMidnightZ == "not-a-dateT00:00:00Z"
\* The next day, date only, and completed to midnight Z
TsNextDate == "2025-05-02"
TsNextZ == "2025-05-02T00:00:00Z"

\* `timestamp.endswith("Z")`, `"T" in timestamp`, `timestamp.endswith("+00:00")`
EndsWithZ(ts) == ts \in {TsZ, TsOffsetZ, TsSpaceMidnightZ, TsNextZ, GarbageMidnightZ}
HasT(ts) == ts \in {TsNaive, TsZ, TsOffset, TsOffsetZ, TsSpaceMidnightZ, TsNextZ, GarbageMidnightZ}
EndsWithOffset(ts) == ts = TsOffset

\* `timestamp + "T00:00:00Z"` and `timestamp + "Z"`
AppendMidnightZ(ts) ==
    CASE ts = TsDate -> TsZ
      [] ts = TsSpace -> TsSpaceMidnightZ
      [] ts = TsNextDate -> TsNextZ
      [] ts = Garbage -> GarbageMidnightZ
      [] OTHER -> ts
AppendZ(ts) ==
    CASE ts = TsNaive -> TsZ
      [] ts = TsOffset -> TsOffsetZ
      [] OTHER -> ts

\* edg.py 465-470
NormalizeEdg(ts) ==
    IF EndsWithZ(ts) THEN ts
    ELSE IF ~HasT(ts) THEN AppendMidnightZ(ts) ELSE AppendZ(ts)

\* mrae.py 385-394
NormalizeMraeAppendAlways(ts) ==
    IF EndsWithZ(ts) THEN ts
    ELSE IF ~HasT(ts) THEN AppendMidnightZ(ts) ELSE AppendZ(ts)

NormalizeMrae(ts) ==
    IF EndsWithZ(ts) THEN ts
    ELSE IF ~HasT(ts) THEN AppendMidnightZ(ts)
    ELSE IF ~EndsWithOffset(ts) THEN AppendZ(ts) ELSE ts

\* A value `float(value)` rejects with ValueError
Malformed == "abc"

\* `float(value)` of a number
Float(value) ==
    CASE value = "0" -> "0.0"
      [] value = "1" -> "1.0"
      [] OTHER -> value

\* `if value is None: continue`
ValuePresentTruthy(value) == value \notin {None, "0", "0.0"}
ValuePresent(value) == value # None

\* `timeseries_id = timeseries_mapping.get(cde_field)`
MappedIdAny(timeseries_mapping, cde_field) ==
    LET bound == {k \in DOMAIN timeseries_mapping : timeseries_mapping[k] # None}
    IN IF bound = {} THEN None
       ELSE timeseries_mapping[CHOOSE k \in bound : TRUE]
MappedId(timeseries_mapping, cde_field) == timeseries_mapping[cde_field]

\* edg.py 435-504: EDGDataTransformer.transform_to_datapoints. One datapoint
\* per (record, measurement) whose value is present and whose measurement has
\* a mapping entry; records without a timestamp and the other pairs are skipped.
RECURSIVE transform_to_datapoints(_, _)
transform_to_datapoints(pairs, timeseries_mapping) ==
    IF pairs = <<>> THEN <<>>
    ELSE LET p == Head(pairs)
             timeseries_id == MappedId(timeseries_mapping, p.key)
             rest == transform_to_datapoints(Tail(pairs), timeseries_mapping)
         IN IF Truthy(p.timestamp) /\ ValuePresent(p.value) /\ Truthy(timeseries_id)
            THEN <<Datapoint(p.measurement, p.unit, Float(p.value),
                             NormalizeEdg(p.timestamp), timeseries_id)>> \o rest
            ELSE rest

\* `float(value)` is reached for a pair that passed the three tests and raises
\* ValueError on a malformed value; neither transformer catches it.
FloatRaises(pairs, timeseries_mapping) ==
    \E i \in 1..Len(pairs) :
        /\ Truthy(pairs[i].timestamp)
        /\ ValuePresent(pairs[i].value)
        /\ Truthy(MappedId(timeseries_mapping, pairs[i].key))
        /\ pairs[i].value = Malformed

\* mrae.py 348-432: MRAEDataTransformer.transform_to_datapoints. The record's
\* `period` is its timestamp; a record without period is skipped.
RECURSIVE mrae_transform_to_datapoints(_, _)
mrae_transform_to_datapoints(pairs, timeseries_mapping) ==
    IF pairs = <<>> THEN <<>>
    ELSE LET p == Head(pairs)
             timeseries_id == MappedId(timeseries_mapping, p.key)
             rest == mrae_transform_to_datapoints(Tail(pairs), timeseries_mapping)
         IN IF Truthy(p.timestamp) /\ ValuePresent(p.value) /\ Truthy(timeseries_id)
            THEN <<Datapoint(p.measurement, p.unit, Float(p.value),
                             NormalizeMrae(p.timestamp), timeseries_id)>> \o rest
            ELSE rest

\* The transformers of data_utils (consumption, generation, weather, MRAE),
\* after the transformer contract: a pair is skipped when its value is absent,
\* when the record has no usable timestamp, or when the mapping has no entry
\* for the field; every other pair gives one datapoint bound to the mapping's
\* identifier.
RECURSIVE data_utils_transform(_, _)
data_utils_transform(pairs, timeseries_mapping) ==
    IF pairs = <<>> THEN <<>>
    ELSE LET p == Head(pairs)
             timeseries_id == timeseries_mapping[p.key]
             rest == data_utils_transform(Tail(pairs), timeseries_mapping)
         IN IF p.value = None \/ ~Truthy(p.timestamp) \/ ~Truthy(timeseries_id)
            THEN rest
            ELSE <<Datapoint(p.measurement, p.unit, p.value, p.timestamp,
                             timeseries_id)>> \o rest

\* main.py 938-1121: mapping, then transformation when the mapping is not empty
DatapointsFor(type, timeseries_list) ==
    LET timeseries_mapping == BuildMapping(type, timeseries_list)
    IN IF MappingNonEmpty(timeseries_mapping)
       THEN IF type = "edg"
            THEN transform_to_datapoints(DataPairs(type), timeseries_mapping)
            ELSE data_utils_transform(DataPairs(type), timeseries_mapping)
       ELSE <<>>

\* ---- cde_client.add_datapoints_batch
\* `total_batches = (len(datapoints) + batch_size - 1) // batch_size`
TotalBatches(n, batch_size) == (n + batch_size - 1) \div batch_size

\* `batch = datapoints[start:end]` for the batch of index b (from 1)
BatchOf(datapoints, batch_size, b) ==
    SubSeq(datapoints, (b - 1) * batch_size + 1,
           Min(b * batch_size, Len(datapoints)))

\* `if None in (measurement, timestamp, value, unit, timeseries_id)`
MissingField(dp) ==
    None \in {dp.measurement, dp.timestamp, dp.value, dp.unit, dp.timeseries_id}

RECURSIVE EncodedRows(_)
EncodedRows(batch) ==
    IF batch = <<>> THEN <<>>
    ELSE (IF MissingField(Head(batch)) THEN <<>> ELSE <<Head(batch)>>)
         \o EncodedRows(Tail(batch))

\* The batches from index b on, with oks[b] telling whether batch b's request
\* is answered 200/201; acc accumulates success, failed and the rows sent.
RECURSIVE UploadBatches(_, _, _, _, _)
UploadBatches(datapoints, batch_size, oks, b, acc) ==
    IF b > TotalBatches(Len(datapoints), batch_size) THEN acc
    ELSE LET batch == BatchOf(datapoints, batch_size, b)
             rows == EncodedRows(batch)
             rows_written == Len(rows)
             missing_fields == Len(batch) - rows_written
         IN UploadBatches(datapoints, batch_size, oks, b + 1,
               [success |-> acc.success + (IF oks[b] THEN rows_written ELSE 0),
                failed |-> acc.failed + missing_fields
                             + (IF oks[b] THEN 0 ELSE rows_written),
                sent |-> acc.sent \o rows])

add_datapoints_batch(datapoints, batch_size, oks) ==
    IF datapoints = <<>>
    THEN [success |-> 0, failed |-> 0, total |-> 0, sent |-> <<>>]
    ELSE LET r == UploadBatches(datapoints, batch_size, oks, 1,
                                [success |-> 0, failed |-> 0, sent |-> <<>>])
         IN [success |-> r.success, failed |-> r.failed,
             total |-> Len(datapoints), sent |-> r.sent]

\* ---- the platform's answers
\* upload_dataset: None on failure, else the response document, which may or
\* may not carry "dataset_id".
DatasetId(type) ==
    CASE type = "consumption" -> "ds-cons"
      [] type = "generation" -> "ds-gen"
      [] type = "mrae" -> "ds-mrae"
      [] OTHER -> "ds-edg"

UploadDatasetReplies(type) ==
    { [ok |-> FALSE, dataset_id |-> None],
      [ok |-> TRUE, dataset_id |-> DatasetId(type)],
      [ok |-> TRUE, dataset_id |-> None] }

\* get_timeseries: None on failure, else the list the platform returns for the
\* dataset: all its series, the first one only, or none.
GetTimeseriesReplies(series) ==
    { [ok |-> FALSE, list |-> <<>>],
      [ok |-> TRUE, list |-> <<>>],
      [ok |-> TRUE, list |-> series] }
    \cup (IF Len(series) > 1 THEN {[ok |-> TRUE, list |-> <<Head(series)>>]} ELSE {})

NotAsked == [ok |-> FALSE, list |-> <<>>, asked |-> FALSE]
NoResult == [success |-> 0, failed |-> 0, total |-> 0, sent |-> <<>>, called |-> FALSE]

\* confirm_proceed: auto-confirmed in non-interactive mode, else the user's answer
ConfirmAnswers(non_interactive) == IF non_interactive THEN {TRUE} ELSE BOOLEAN

\* The dataset selections of main.py 397-400, in the order main appends them.
Selections ==
    { <<"consumption">>, <<"generation">>, <<"consumption", "generation">>,
      <<"mrae">>, <<"consumption", "generation", "mrae">>, <<"edg">> }

UploadStart ==
    /\ NON_INTERACTIVE_MODE \in BOOLEAN
    /\ id_style \in {"int", "str"}
    /\ \E sel \in Selections : \E saved \in [1..Len(sel) -> BOOLEAN] :
          datasets_to_process =
              [i \in 1..Len(sel) |-> [type |-> sel[i], has_file_path |-> saved[i]]]
    /\ upc = "confirm_upload"
    /\ idx = 0
    /\ successful_uploads = <<>>
    /\ cde_series = [ty \in TypeSet |-> <<>>]
    /\ timeseries_lists = [ty \in TypeSet |-> NotAsked]
    /\ sent_rows = [ty \in TypeSet |-> <<>>]
    /\ datapoint_result = [ty \in TypeSet |-> NoResult]
    /\ declined = {}

UploadIdle ==
    /\ NON_INTERACTIVE_MODE = TRUE
    /\ id_style = "int"
    /\ datasets_to_process = <<>>
    /\ upc = "not_started"
    /\ idx = 0
    /\ successful_uploads = <<>>
    /\ cde_series = [ty \in TypeSet |-> <<>>]
    /\ timeseries_lists = [ty \in TypeSet |-> NotAsked]
    /\ sent_rows = [ty \in TypeSet |-> <<>>]
    /\ datapoint_result = [ty \in TypeSet |-> NoResult]
    /\ declined = {}

\* main.py 851-860: "upload them to CDE?"
ConfirmUpload ==
    /\ upc = "confirm_upload"
    /\ \E yes \in ConfirmAnswers(NON_INTERACTIVE_MODE) :
          IF yes THEN upc' = "register" /\ idx' = 1 /\ declined' = declined
                 ELSE upc' = "exit" /\ idx' = idx /\ declined' = declined \cup {"upload"}
    /\ UNCHANGED <<NON_INTERACTIVE_MODE, id_style, datasets_to_process,
                   successful_uploads, cde_series, timeseries_lists, sent_rows,
                   datapoint_result>>

\* main.py 879: `if upload_result:`: None (the request failed) is falsy, the
\* response document is truthy
UploadResultAlwaysTruthy(upload_result) == TRUE
UploadResultTruthy(upload_result) == upload_result.ok

\* main.py 867-895: one turn of the registration loop
RegisterDataset ==
    /\ upc = "register"
    /\ idx <= Len(datasets_to_process)
    /\ LET dataset_info == datasets_to_process[idx]
           type == dataset_info.type
       IN IF ~dataset_info.has_file_path
          THEN UNCHANGED <<successful_uploads, cde_series>>
          ELSE \E upload_result \in UploadDatasetReplies(type) :
                  /\ cde_series' =
                        IF upload_result.ok
                        THEN [cde_series EXCEPT ![type] = PersistedSeries(type, id_style)]
                        ELSE cde_series
                  /\ successful_uploads' =
                        IF UploadResultTruthy(upload_result)
                        THEN Append(successful_uploads,
                                    [type |-> type,
                                     dataset_id |-> upload_result.dataset_id])
                        ELSE successful_uploads
    /\ idx' = idx + 1
    /\ UNCHANGED <<declined, NON_INTERACTIVE_MODE, id_style, datasets_to_process, upc,
                   timeseries_lists, sent_rows, datapoint_result>>

\* main.py 897-911: nothing registered -> return; else "upload datapoints?"
ConfirmDatapoints ==
    /\ upc = "register"
    /\ idx > Len(datasets_to_process)
    /\ IF successful_uploads = <<>>
       THEN upc' = "exit" /\ idx' = idx /\ declined' = declined
       ELSE \E yes \in ConfirmAnswers(NON_INTERACTIVE_MODE) :
               IF yes THEN upc' = "datapoints" /\ idx' = 1 /\ declined' = declined
                      ELSE /\ upc' = "exit" /\ idx' = idx
                           /\ declined' = declined \cup {"datapoints"}
    /\ UNCHANGED <<NON_INTERACTIVE_MODE, id_style, datasets_to_process,
                   successful_uploads, cde_series, timeseries_lists, sent_rows,
                   datapoint_result>>

\* main.py 916-1150: one turn of the datapoint loop: list the series, build
\* the mapping, transform, upload in batches.
UploadDatapoints ==
    /\ upc = "datapoints"
    /\ idx <= Len(successful_uploads)
    /\ LET type == successful_uploads[idx].type
       IN \E reply \in GetTimeseriesReplies(cde_series[type]) :
            LET timeseries_list == reply.list
                datapoints == DatapointsFor(type, timeseries_list)
                nb == TotalBatches(Len(datapoints), DEFAULT_BATCH_SIZE)
            IN /\ timeseries_lists' =
                     [timeseries_lists EXCEPT
                         ![type] = [ok |-> reply.ok, list |-> reply.list, asked |-> TRUE]]
               /\ IF timeseries_list = <<>> \/ datapoints = <<>>
                  THEN UNCHANGED <<sent_rows, datapoint_result>>
                  ELSE \E oks \in [1..nb -> BOOLEAN] :
                          LET batch_result ==
                                 add_datapoints_batch(datapoints, DEFAULT_BATCH_SIZE, oks)
                          IN /\ sent_rows' = [sent_rows EXCEPT ![type] = batch_result.sent]
                             /\ datapoint_result' =
                                   [datapoint_result EXCEPT
                                       ![type] = [success |-> batch_result.success,
                                                  failed |-> batch_result.failed,
                                                  total |-> batch_result.total,
                                                  sent |-> batch_result.sent,
                                                  called |-> TRUE]]
    /\ idx' = idx + 1
    /\ UNCHANGED <<declined, NON_INTERACTIVE_MODE, id_style, datasets_to_process, upc,
                   successful_uploads, cde_series>>

\* main.py 1152: the loop is over, the final summary follows
UploadDone ==
    /\ upc = "datapoints"
    /\ idx > Len(successful_uploads)
    /\ upc' = "done"
    /\ UNCHANGED <<declined, NON_INTERACTIVE_MODE, id_style, datasets_to_process, idx,
                   successful_uploads, cde_series, timeseries_lists, sent_rows,
                   datapoint_result>>

\* The client once the retrieval phase is over: authenticated, no method running.
QueryIdle ==
    /\ start_date = 1
    /\ end_date = 2
    /\ access_token = 1
    /\ authCount = 1
    /\ pc = "idle"
    /\ op = "none"
    /\ query = NoQuery
    /\ mode = "none"
    /\ current_date = 0
    /\ chunk_end_date = 0
    /\ all_records = <<>>
    /\ requests = <<>>
    /\ responses = <<>>
    /\ inflight = 0
    /\ opAuth = <<>>
    /\ result = <<>>
    /\ opsDone = MaxOps

\* ============================================ batch upload, request by request
\* cde_client.add_datapoints_batch seen one request at a time.
VARIABLES
    b_datapoints,   \* the `datapoints` argument
    b_batch_size,   \* the `batch_size` argument
    bpc,            \* position inside add_datapoints_batch
    batch_index,    \* loop variable of `for batch_index in range(total_batches)`
    rows_written,   \* rows encoded for the batch being posted
    total_success,
    total_failed,
    csv_files,      \* measurement types whose complete CSV file was saved
    b_requests,     \* upload requests issued: [batch_index, rows]
    b_outcomes,     \* how each issued request ended
    b_result        \* the returned UploadResult

bvars == <<b_datapoints, b_batch_size, bpc, batch_index, rows_written,
           total_success, total_failed, csv_files, b_requests, b_outcomes,
           b_result>>

\* A transformer's datapoint, complete or lacking one of the five fields; the
\* value tells the datapoints of one input apart.
DatapointVariants == {"complete", "no_unit", "no_timeseries"}
ValueOf(i) == <<"1.0", "2.0", "3.0", "4.0", "5.0">>[i]
InputDatapoint(variant, i) ==
    Datapoint("consumedEnergy",
              IF variant = "no_unit" THEN None ELSE "kWh",
              ValueOf(i),
              "2025-05-01T00:00:00Z",
              IF variant = "no_timeseries" THEN None ELSE "cde-edg-1")

BatchInputs ==
    UNION {{[i \in 1..n |-> InputDatapoint(v[i], i)] : v \in [1..n -> DatapointVariants]} :
              n \in 0..MaxDatapoints}

\* How a POST to api/timeseries/csv ends: answered 200, 201 or another status,
\* or a RequestException.
PostOutcomes == {"200", "201", "500", "RequestException"}
\* `if response.status_code in (200, 201)`
PostSucceededOnly200(outcome) == outcome = "200"
PostSucceededAny(outcome) == outcome \in {"200", "201", "500"}
PostSucceeded(outcome) == outcome \in {"200", "201"}

\* `datapoints_by_measurement`: the measurement types present in the input
MeasurementTypes(datapoints) ==
    {datapoints[i].measurement : i \in 1..Len(datapoints)} \ {None, ""}

\* `start = batch_index * batch_size`, with batch_index counted from 0
BatchAtFirst(datapoints, batch_size, index0) == BatchOf(datapoints, batch_size, 1)
BatchAt(datapoints, batch_size, index0) == BatchOf(datapoints, batch_size, index0 + 1)

\* What the loop does after a batch whose request failed
AfterFailedBatchRetry(index0) == index0
AfterFailedBatch(index0) == index0 + 1

\* `total_failed += missing_fields`, before the request is made
FailedAfterEncodingIgnored(failed, missing_fields) == failed
FailedAfterEncoding(failed, missing_fields) == failed + missing_fields

NoUploadResult == [success |-> 0, failed |-> 0, total |-> 0, returned |-> FALSE]
UploadResult(success, failed, total) ==
    [success |-> success, failed |-> failed, total |-> total, returned |-> TRUE]

BatchStartState ==
    /\ b_datapoints \in BatchInputs
    /\ b_batch_size \in 1..MaxBatchSize
    /\ bpc = "called"
    /\ batch_index = 0
    /\ rows_written = 0
    /\ total_success = 0
    /\ total_failed = 0
    /\ csv_files = {}
    /\ b_requests = <<>>
    /\ b_outcomes = <<>>
    /\ b_result = NoUploadResult

BatchIdle ==
    /\ b_datapoints = <<>>
    /\ b_batch_size = 1
    /\ bpc = "not_called"
    /\ batch_index = 0
    /\ rows_written = 0
    /\ total_success = 0
    /\ total_failed = 0
    /\ csv_files = {}
    /\ b_requests = <<>>
    /\ b_outcomes = <<>>
    /\ b_result = NoUploadResult

\* cde_client.py 285-286: `if not datapoints: return {0, 0, 0}`
BatchReturnEmpty ==
    /\ bpc = "called"
    /\ b_datapoints = <<>>
    /\ b_result' = UploadResult(0, 0, 0)
    /\ bpc' = "returned"
    /\ UNCHANGED <<b_datapoints, b_batch_size, batch_index, rows_written,
                   total_success, total_failed, csv_files, b_requests, b_outcomes>>

\* cde_client.py 288-358: one complete CSV file per measurement type is saved
\* (a failed write is logged and skipped), then the counters are reset.
BatchSaveCsv ==
    /\ bpc = "called"
    /\ b_datapoints # <<>>
    /\ \E saved \in SUBSET MeasurementTypes(b_datapoints) : csv_files' = saved
    /\ total_success' = 0
    /\ total_failed' = 0
    /\ batch_index' = 0
    /\ bpc' = "loop"
    /\ UNCHANGED <<b_datapoints, b_batch_size, rows_written, b_requests,
                   b_outcomes, b_result>>

\* cde_client.py 360-419: slice the batch, encode its rows, count the rows
\* that miss a field as failed, post the payload.
BatchPost ==
    /\ bpc = "loop"
    /\ batch_index < TotalBatches(Len(b_datapoints), b_batch_size)
    /\ LET batch == BatchAt(b_datapoints, b_batch_size, batch_index)
           rows == EncodedRows(batch)
           missing_fields == Len(batch) - Len(rows)
       IN /\ rows_written' = Len(rows)
          /\ total_failed' = FailedAfterEncoding(total_failed, missing_fields)
          /\ b_requests' = Append(b_requests,
                                  [batch_index |-> batch_index, batch |-> batch,
                                   rows |-> rows, failed_before |-> total_failed'])
    /\ bpc' = "posting"
    /\ UNCHANGED <<b_datapoints, b_batch_size, batch_index, total_success,
                   csv_files, b_outcomes, b_result>>

\* cde_client.py 415-435: the request's outcome; either way the loop goes on
BatchReply ==
    /\ bpc = "posting"
    /\ \E outcome \in PostOutcomes :
          /\ b_outcomes' = Append(b_outcomes, outcome)
          /\ IF PostSucceeded(outcome)
             THEN /\ total_success' = total_success + rows_written
                  /\ total_failed' = total_failed
                  /\ batch_index' = batch_index + 1
             ELSE /\ total_failed' = total_failed + rows_written
                  /\ total_success' = total_success
                  /\ batch_index' = AfterFailedBatch(batch_index)
    /\ bpc' = "loop"
    /\ UNCHANGED <<b_datapoints, b_batch_size, rows_written, csv_files,
                   b_requests, b_result>>

\* cde_client.py 437-442: the loop is over
BatchReturn ==
    /\ bpc = "loop"
    /\ batch_index >= TotalBatches(Len(b_datapoints), b_batch_size)
    /\ b_result' = UploadResult(total_success, total_failed, Len(b_datapoints))
    /\ bpc' = "returned"
    /\ UNCHANGED <<b_datapoints, b_batch_size, batch_index, rows_written,
                   total_success, total_failed, csv_files, b_requests, b_outcomes>>

\* ================================================== field mappers, call by call
VARIABLES
    m_kind,      \* which mapper: "generation" | "mrae" | "edg"
    m_list,      \* the time-series list the platform returned
    m_input,     \* the list handed to the mapper in the last call
    m_mapping,   \* the dict the last call returned
    m_missing,   \* the field names the last call reported as missing
    m_history,   \* the calls made so far: [input, mapping]
    mpc          \* "not_called" | "ready" | "returned"

mvars == <<m_kind, m_list, m_input, m_mapping, m_missing, m_history, mpc>>

MapperKinds == {"generation", "mrae", "edg"}

AbsentFieldId == [style |-> "none", n |-> 0]

\* The descriptors a list may hold: any field id (absent, a table id, an
\* unknown id, a digit string), any field name, with or without identifier.
FieldIdValues ==
    {AbsentFieldId, FieldId("int", 1), FieldId("int", 2), FieldId("int", 9),
     FieldId("str", 1)}
FieldNameValues == {None, "generatedEnergy", "outdoorTemperature", "consumedEnergy"}
TsIdValues == {None, "ts-A", "ts-B"}
Descriptors ==
    {Descriptor(id, fid, name, None, None) :
        id \in TsIdValues, fid \in FieldIdValues, name \in FieldNameValues}

\* The descriptors of the repeated-call runs: identifier present, field id 1
\* or 2 or unknown.
ProbeDescriptors ==
    {Descriptor(id, fid, "consumedEnergy", None, None) :
        id \in {"ts-A", "ts-B"},
        fid \in {FieldId("int", 1), FieldId("int", 2), FieldId("int", 9)}}

ListsOver(S, n) == UNION {[1..k -> S] : k \in 0..n}

\* `timeseries_mapping = {}` at the head of every mapper: a fresh dict
StartMappingShared(previous, keys) == previous
StartMapping(previous, keys) == EmptyMapping(keys)

KeysOf(kind) ==
    CASE kind = "generation" -> GenerationKeys
      [] kind = "mrae" -> MraeKeys
      [] OTHER -> EdgKeys

MapperFrom(kind, timeseries_list, start) ==
    CASE kind = "generation" -> generation_mapping(timeseries_list, start)
      [] kind = "mrae" -> mrae_mapping(timeseries_list, start)
      [] OTHER -> create_timeseries_mapping(timeseries_list, start)

\* `[m for m in expected_mappings if m not in timeseries_mapping]`
MissingMappingsNoneOrAll(expected, mapping) ==
    IF \E k \in expected : mapping[k] # None THEN {} ELSE expected
MissingMappings(expected, mapping) == {k \in expected : mapping[k] = None}

MapperIdle ==
    /\ m_kind = "edg"
    /\ m_list = <<>>
    /\ m_input = <<>>
    /\ m_mapping = EmptyMapping(EdgKeys)
    /\ m_missing = {}
    /\ m_history = <<>>
    /\ mpc = "not_called"

MapperStart(pool) ==
    /\ m_kind \in MapperKinds
    /\ m_list \in ListsOver(pool, MaxDescriptors)
    /\ m_input = <<>>
    /\ m_mapping = EmptyMapping(KeysOf(m_kind))
    /\ m_missing = {}
    /\ m_history = <<>>
    /\ mpc = "ready"

\* One call of the mapper on `timeseries_list`: main.py 957-1028 (generation),
\* main.py 1047-1091 and mrae.py 435-475 (MRAE), edg.py 507-552 (EDG).
Resolve(timeseries_list) ==
    LET keys == KeysOf(m_kind)
        mapping == MapperFrom(m_kind, timeseries_list, StartMapping(m_mapping, keys))
    IN /\ m_input' = timeseries_list
       /\ m_mapping' = mapping
       /\ m_missing' = MissingMappings(keys, mapping)
       /\ m_history' = Append(m_history, [input |-> timeseries_list, mapping |-> mapping])
       /\ mpc' = "returned"
       /\ UNCHANGED <<m_kind, m_list>>

\* The mapper is called once, on the list the platform returned.
ResolveOnce ==
    /\ mpc = "ready"
    /\ Resolve(m_list)

\* The mapper is called again and again, on the list or on a prefix of it.
ResolveAgain ==
    /\ mpc \in {"ready", "returned"}
    /\ Len(m_history) < MaxResolves
    /\ \E k \in 0..Len(m_list) : Resolve(SubSeq(m_list, 1, k))

\* ================================================ transformers, call by call
VARIABLES
    t_kind,        \* which transformer: "edg" | "mrae"
    t_records,     \* the record list handed to the transformer
    t_mapping,     \* the field mapping handed to the transformer
    t_datapoints,  \* the datapoints returned
    tpc            \* "not_called" | "ready" | "returned" | "raised"

tvars == <<t_kind, t_records, t_mapping, t_datapoints, tpc>>

TransformerKinds == {"edg", "mrae"}

\* FIELD_MAPPINGS: record key -> (CDE field, measurement, unit), in dict order
FIELD_MAPPINGS(kind) ==
    IF kind = "edg"
    THEN << [record_key |-> "consumedEnergy", cde_field |-> "consumedEnergy",
             measurement |-> "consumedEnergy", unit |-> "kWh"],
            [record_key |-> "generatedEnergy", cde_field |-> "generatedEnergy",
             measurement |-> "generatedEnergy", unit |-> "kWh"] >>
    ELSE << [record_key |-> "total_kwh", cde_field |-> "consumedEnergy",
             measurement |-> "consumedEnergy", unit |-> "kWh"] >>

RecordKeys(kind) ==
    {FIELD_MAPPINGS(kind)[i].record_key : i \in 1..Len(FIELD_MAPPINGS(kind))}

\* What a record may hold: any timestamp form or none, and per field a number
\* (zero included), null, or text that is not a number.
\* Timestamps: absent, empty, and two present forms
PresenceTimestamps == {None, "", TsDate, TsOffset}
NumberValues == {None, "0", "1.5", Malformed}
\* Timestamps: absent and every present form, with a number or null per field
TimestampForms == {None, TsDate, TsNaive, TsSpace, TsZ, TsOffset}
PlainValues == {None, "1.5"}
\* A date or text that is no date, with a number or text that is no number
DatesGoodAndBad == {TsDate, Garbage}
NumbersGoodAndBad == {"1.5", Malformed}
Records(kind, timestamps, values) ==
    {[timestamp |-> ts, values |-> v] :
        ts \in timestamps, v \in [RecordKeys(kind) -> values]}

\* Mappings: each CDE field bound to its identifier, or unbound.
IdOfField(cde_field) ==
    IF cde_field = "consumedEnergy" THEN "cde-ts-consumed" ELSE "cde-ts-generated"
Mappings(kind) ==
    {[k \in KeysOf(kind) |-> IF k \in bound THEN IdOfField(k) ELSE None] :
        bound \in SUBSET KeysOf(kind)}

\* `for record in data: for field in FIELD_MAPPINGS: value = record.get(field)`
RECURSIVE PairsOfRecord(_, _)
PairsOfRecord(record, fields) ==
    IF fields = <<>> THEN <<>>
    ELSE <<Pair(Head(fields).cde_field, Head(fields).measurement, Head(fields).unit,
                record.values[Head(fields).record_key], record.timestamp)>>
         \o PairsOfRecord(record, Tail(fields))

RECURSIVE PairsOf(_, _)
PairsOf(kind, records) ==
    IF records = <<>> THEN <<>>
    ELSE PairsOfRecord(Head(records), FIELD_MAPPINGS(kind))
         \o PairsOf(kind, Tail(records))

TransformIdle ==
    /\ t_kind = "edg"
    /\ t_records = <<>>
    /\ t_mapping = EmptyMapping(EdgKeys)
    /\ t_datapoints = <<>>
    /\ tpc = "not_called"

TransformStart(timestamps, values) ==
    /\ t_kind \in TransformerKinds
    /\ t_records \in ListsOver(Records(t_kind, timestamps, values), MaxRecords)
    /\ t_mapping \in Mappings(t_kind)
    /\ t_datapoints = <<>>
    /\ tpc = "ready"

\* One call of EDGDataTransformer.transform_to_datapoints
TransformEdg ==
    /\ tpc = "ready"
    /\ t_kind = "edg"
    /\ IF FloatRaises(PairsOf("edg", t_records), t_mapping)
       THEN t_datapoints' = <<>> /\ tpc' = "raised"
       ELSE /\ t_datapoints' = transform_to_datapoints(PairsOf("edg", t_records), t_mapping)
            /\ tpc' = "returned"
    /\ UNCHANGED <<t_kind, t_records, t_mapping>>

\* One call of MRAEDataTransformer.transform_to_datapoints
TransformMrae ==
    /\ tpc = "ready"
    /\ t_kind = "mrae"
    /\ IF FloatRaises(PairsOf("mrae", t_records), t_mapping)
       THEN t_datapoints' = <<>> /\ tpc' = "raised"
       ELSE /\ t_datapoints' = mrae_transform_to_datapoints(PairsOf("mrae", t_records), t_mapping)
            /\ tpc' = "returned"
    /\ UNCHANGED <<t_kind, t_records, t_mapping>>

\* ============================================ grid CSV: load and aggregate
VARIABLES
    csv_rows,           \* the rows csv.DictReader yields, in file order
    g_start, g_end,     \* load_csv's date filter: a day of May 2025, or NoDate
    g_records,          \* the list load_csv returns / aggregate_by_timestamp takes
    skipped_count,      \* load_csv's counter of skipped rows
    g_result,           \* the list aggregate_by_timestamp returns
    reordered,          \* the same records in another order
    reordered_result,   \* aggregate_by_timestamp of the reordered records
    gpc                 \* "not_called" | "start" | "loaded" | "aggregated" | "again" | "raised"

gvars == <<csv_rows, g_start, g_end, g_records, skipped_count, g_result, reordered,
           reordered_result, gpc>>

\* ---- Python floats, with a mantissa of MantissaBits bits instead of 53:
\* a sum is rounded to the nearest representable number, ties to even.
RECURSIVE Pow2(_)
Pow2(k) == IF k = 0 THEN 1 ELSE 2 * Pow2(k - 1)

RECURSIVE ExponentOf(_, _)
ExponentOf(n, e) == IF n < Pow2(MantissaBits + e) THEN e ELSE ExponentOf(n, e + 1)

RoundToFloat(n) ==
    LET e == ExponentOf(n, 0)
        unit == Pow2(e)
        q == n \div unit
        r == n % unit
    IN IF e = 0 THEN n
       ELSE IF 2 * r > unit \/ (2 * r = unit /\ q % 2 = 1)
            THEN (q + 1) * unit
            ELSE q * unit

\* `aggregated[timestamp][measurement] += value`
FloatAddExact(a, b) == a + b
FloatAdd(a, b) == RoundToFloat(a + b)

\* A record of load_csv's list
CsvRecord(bus, timestamp, measurement, value) ==
    [BUS_name |-> bus, timestamp |-> timestamp, measurement |-> measurement,
     value |-> value, unit |-> "kWh"]

\* `defaultdict(lambda: {"consumedEnergy": 0.0, "generatedEnergy": 0.0})`
ZeroSums == [consumedEnergy |-> 0, generatedEnergy |-> 0]

\* edg.py 145-158 with `=` in place of `+=`: the last value wins
RECURSIVE GroupByTimestampLastValue(_, _)
GroupByTimestampLastValue(recs, aggregated) ==
    IF recs = <<>> THEN aggregated
    ELSE LET record == Head(recs)
             timestamp == NormalizeEdg(record.timestamp)
             entry == IF timestamp \in DOMAIN aggregated
                      THEN aggregated[timestamp] ELSE ZeroSums
             updated ==
                 IF record.measurement \in DOMAIN entry
                 THEN [entry EXCEPT ![record.measurement] = record.value]
                 ELSE entry
         IN GroupByTimestampLastValue(Tail(recs),
               [k \in DOMAIN aggregated \cup {timestamp} |->
                   IF k = timestamp THEN updated ELSE aggregated[k]])

\* edg.py 145-158: the loop over the records. `aggregated` is a function from
\* the timestamps seen so far to their two sums; reading aggregated[timestamp]
\* creates the entry, also for a measurement that is neither of the two.
RECURSIVE GroupByTimestamp(_, _)
GroupByTimestamp(recs, aggregated) ==
    IF recs = <<>> THEN aggregated
    ELSE LET record == Head(recs)
             timestamp == NormalizeEdg(record.timestamp)
             entry == IF timestamp \in DOMAIN aggregated
                      THEN aggregated[timestamp] ELSE ZeroSums
             updated ==
                 IF record.measurement \in DOMAIN entry
                 THEN [entry EXCEPT ![record.measurement] = FloatAdd(@, record.value)]
                 ELSE entry
         IN GroupByTimestamp(Tail(recs),
               [k \in DOMAIN aggregated \cup {timestamp} |->
                   IF k = timestamp THEN updated ELSE aggregated[k]])

\* The place of a normalised timestamp in the order of Python strings
SortKey(timestamp) ==
    CASE timestamp = TsSpaceMidnightZ -> 1
      [] timestamp = TsOffsetZ -> 2
      [] timestamp = TsZ -> 3
      [] OTHER -> 4

\* `for timestamp in sorted(aggregated.keys())`
RECURSIVE SortedKeysInsertionOrder(_, _)
SortedKeysInsertionOrder(recs, seen) ==
    IF recs = <<>> THEN <<>>
    ELSE LET timestamp == NormalizeEdg(Head(recs).timestamp)
         IN (IF timestamp \in seen THEN <<>> ELSE <<timestamp>>)
            \o SortedKeysInsertionOrder(Tail(recs), seen \cup {timestamp})

RECURSIVE SortedKeysOf(_)
SortedKeysOf(keys) ==
    IF keys = {} THEN <<>>
    ELSE LET first == CHOOSE k \in keys : \A o \in keys : SortKey(k) <= SortKey(o)
         IN <<first>> \o SortedKeysOf(keys \ {first})

KeysInInsertionOrder(recs, aggregated) == SortedKeysInsertionOrder(recs, {})
SortedKeys(recs, aggregated) == SortedKeysOf(DOMAIN aggregated)

\* edg.py 123-172
aggregate_by_timestamp(recs) ==
    LET aggregated == GroupByTimestamp(recs, <<>>)
        keys == SortedKeys(recs, aggregated)
    IN [i \in 1..Len(keys) |->
           [timestamp |-> keys[i],
            consumedEnergy |-> aggregated[keys[i]].consumedEnergy,
            generatedEnergy |-> aggregated[keys[i]].generatedEnergy]]

\* Records as load_csv returns them: a bus, a timestamp in any accepted form,
\* a measurement (a third kind included), a float
GridTimestamps == {TsNaive, TsZ, TsNextDate}
\* a measurement and its value: the two kinds, and a third kind
GridReadings ==
    {<<"consumedEnergy", 5>>, <<"consumedEnergy", 10>>, <<"generatedEnergy", 2>>,
     <<"voltage", 2>>}
\* One, and the first power of two whose successor is not representable
RoundingValues == {1, Pow2(MantissaBits)}
RecordsOver(timestamps, readings) ==
    UNION {{[i \in 1..n |-> CsvRecord(<<"Bus1", "Bus2", "Bus3", "Bus4">>[i],
                                      f[i][1], f[i][2][1], f[i][2][2])] :
               f \in [1..n -> timestamps \X readings]} : n \in 0..MaxRows}

\* ---- load_csv
\* The mark of a column the header lacks (reading it raises KeyError). A row shorter than the header holds None for
\* its trailing columns (csv.DictReader's restval).
NoKey == "KeyError"

CsvRow(timestamp, value, unit) ==
    [BUS_name |-> "Bus1", timestamp |-> timestamp, measurement |-> "consumedEnergy",
     value |-> value, unit |-> unit]

\* Full rows with a good or bad timestamp and a good or bad value, and rows
\* that end after the bus, after the measurement, or after the value
CsvRows ==
    {CsvRow(ts, v, "kWh") : ts \in {TsNaive, TsNextDate, Garbage}, v \in {"5", "abc"}}
    \cup {CsvRow(None, None, None), CsvRow(TsNaive, None, None),
          CsvRow(TsNaive, "5", None)}

\* A file whose header lacks the value column
WithoutValueColumn(rows) == [i \in 1..Len(rows) |-> [rows[i] EXCEPT !.value = NoKey]]

CsvFiles ==
    LET files == UNION {[1..n -> CsvRows] : n \in 0..MaxRows}
    IN files \cup {WithoutValueColumn(f) : f \in files}

\* `datetime.fromisoformat(timestamp_str.replace("Z", ""))` raises ValueError
IsoformatFails(timestamp_str) == timestamp_str \in {Garbage, ""}
\* `.date()`, as the day of May 2025
DateOf(timestamp_str) == IF timestamp_str = TsNextDate THEN 2 ELSE 1
\* `float(row["value"])` raises ValueError; its result otherwise
FloatFails(text) == text \in {"abc", ""}
FloatOf(text) == IF text = "5" THEN 5 ELSE 10

\* edg.py 84-115: what one row does: "append", "skip" (filtered out, or
\* ValueError/KeyError caught) or "raise" (AttributeError of None.replace,
\* TypeError of float(None): not caught)
RowOutcome(row, from_date, to_date) ==
    IF row.timestamp = NoKey THEN "skip"
    ELSE IF row.timestamp = None THEN "raise"
    ELSE IF IsoformatFails(row.timestamp) THEN "skip"
    ELSE IF from_date # NoDate /\ DateOf(row.timestamp) < from_date THEN "skip"
    ELSE IF to_date # NoDate /\ DateOf(row.timestamp) >= to_date THEN "skip"
    ELSE IF row.value = NoKey THEN "skip"
    ELSE IF row.value = None THEN "raise"
    ELSE IF FloatFails(row.value) THEN "skip"
    ELSE IF NoKey \in {row.BUS_name, row.measurement, row.unit} THEN "skip"
    ELSE "append"

\* edg.py 78-121: the loop over the rows; acc holds records, skipped_count
\* and whether an exception left the function
RECURSIVE load_csv(_, _, _, _)
load_csv(rows, from_date, to_date, acc) ==
    IF rows = <<>> THEN acc
    ELSE LET row == Head(rows)
             outcome == RowOutcome(row, from_date, to_date)
         IN IF outcome = "raise" THEN [acc EXCEPT !.raised = TRUE]
            ELSE IF outcome = "skip"
            THEN load_csv(Tail(rows), from_date, to_date,
                          [acc EXCEPT !.skipped_count = @ + 1])
            ELSE load_csv(Tail(rows), from_date, to_date,
                          [acc EXCEPT !.records =
                              Append(@, [BUS_name |-> row.BUS_name,
                                         timestamp |-> row.timestamp,
                                         measurement |-> row.measurement,
                                         value |-> FloatOf(row.value),
                                         unit |-> row.unit])])

\* `start_date: Optional[date] = None`: no filter, or a day of May 2025
FilterDays == {NoDate, 1, 2, 3}

\* get_aggregated_data(start_date, end_date) is called on a file
LoadStart ==
    /\ csv_rows \in CsvFiles
    /\ g_start \in FilterDays
    /\ g_end \in FilterDays
    /\ g_records = <<>>
    /\ skipped_count = 0
    /\ g_result = <<>>
    /\ reordered = <<>>
    /\ reordered_result = <<>>
    /\ gpc = "start"

\* edg.py 189: `records = self.load_csv(start_date, end_date)`
LoadCsv ==
    /\ gpc = "start"
    /\ LET r == load_csv(csv_rows, g_start, g_end,
                         [records |-> <<>>, skipped_count |-> 0, raised |-> FALSE])
       IN IF r.raised
          THEN gpc' = "raised" /\ UNCHANGED <<g_records, skipped_count>>
          ELSE /\ g_records' = r.records
               /\ skipped_count' = r.skipped_count
               /\ gpc' = "loaded"
    /\ UNCHANGED <<csv_rows, g_start, g_end, g_result, reordered, reordered_result>>

Reorderings(n) == {f \in [1..n -> 1..n] : \A i, j \in 1..n : f[i] = f[j] => i = j}

GridIdle ==
    /\ csv_rows = <<>>
    /\ g_start = NoDate
    /\ g_end = NoDate
    /\ g_records = <<>>
    /\ skipped_count = 0
    /\ g_result = <<>>
    /\ reordered = <<>>
    /\ reordered_result = <<>>
    /\ gpc = "not_called"

\* load_csv has returned the records of `pool`
AggregateStart(pool) ==
    /\ csv_rows = <<>>
    /\ g_start = NoDate
    /\ g_end = NoDate
    /\ g_records \in pool
    /\ skipped_count = 0
    /\ g_result = <<>>
    /\ reordered = <<>>
    /\ reordered_result = <<>>
    /\ gpc = "loaded"

\* edg.py 190: `return self.aggregate_by_timestamp(records)`
AggregateByTimestamp ==
    /\ gpc = "loaded"
    /\ g_result' = aggregate_by_timestamp(g_records)
    /\ gpc' = "aggregated"
    /\ UNCHANGED <<csv_rows, g_start, g_end, g_records, skipped_count, reordered,
                   reordered_result>>

\* aggregate_by_timestamp called on the same records in another order
AggregateReordered ==
    /\ gpc = "aggregated"
    /\ \E perm \in Reorderings(Len(g_records)) :
          /\ reordered' = [i \in 1..Len(g_records) |-> g_records[perm[i]]]
          /\ reordered_result' = aggregate_by_timestamp(reordered')
    /\ gpc' = "again"
    /\ UNCHANGED <<csv_rows, g_start, g_end, g_records, skipped_count, g_result>>

\* ===================================================== the run of main
VARIABLES
    rpc,              \* "not_started" | "health" | "auth" | "confirm_config" | "query" |
                      \* "confirm_generate" | "process" | "upload" | "exit" | "error"
    delete_dataset,   \* --delete-dataset: None, or the text given as ID
    delete_all_datasets,  \* --delete-all-datasets
    cde_requests,     \* the requests of the deletion branch, in order
    open_sessions,    \* the clients whose requests.Session is created and not closed
    health_response,  \* what the health endpoint answered
    health_status,    \* "unknown" | "healthy" (main goes on) | "down" (main returns)
    auth_status,      \* "unknown" | "authenticated" | "failed"
    selected,         \* the dataset types chosen, in main's order
    r_idx,            \* index of the dataset the current loop is at
    queried,          \* the queries and loads performed, in order
    data,             \* per type: "none" | "records" | "empty"
    raised_at,        \* the type whose processing raised, or None
    is_valid,         \* per type: "unchecked" | "valid" | "invalid"
    proceeded         \* the types the user chose to keep despite a failed validation

rvars == <<rpc, delete_dataset, delete_all_datasets, cde_requests, open_sessions, health_response, health_status, auth_status, selected, r_idx, queried, data, raised_at,
           is_valid, proceeded>>

\* main.py 257-260: the health check failed -> return
AfterHealthFailureContinue == "auth"
AfterHealthFailure == "exit"

\* main.py 1229-1232: authentication failed -> return
AfterAuthFailureContinue == "confirm_config"
AfterAuthFailure == "exit"

\* main.py 1240-1242: an exception raised by a query or load reaches main's
\* `except Exception` -> return
AfterQueryRaisedNextDataset == "query"
AfterQueryRaised == "error"

\* main.py 805-830: a failed validation: raise in non-interactive mode, else
\* what the user answers to "proceed anyway?"
AfterInvalidIgnoreAnswer(non_interactive, answer) ==
    IF non_interactive THEN "raise" ELSE "proceed"
AfterInvalid(non_interactive, answer) ==
    IF non_interactive THEN "raise" ELSE IF answer THEN "proceed" ELSE "skip"

\* main.py 472-509: the queries of one dataset type, in order
QueriesOf(type) ==
    IF type = "generation" THEN <<"generation", "weather">> ELSE <<type>>

\* What one query or load can do: return records, return nothing, raise
QueryResults == {"records", "empty", "raise"}

\* cde_client.py 39-45: what `self.session.get(health_url)` can bring: no
\* response at all (a RequestException), or a status code with a body that is
\* a JSON object with fields, the empty JSON object, or not JSON
NoResponse == [status_code |-> 0, body |-> "none"]
HealthStatusCodes == {200, 503, 500}
HealthBodies == {"object", "empty_object", "not_json"}
HealthResponses ==
    {NoResponse} \cup [status_code : HealthStatusCodes, body : HealthBodies]

\* cde_client.py 31-61: check_health: None when the request raised, else
\* `health_data = response.json()` whatever the status code, which only
\* selects the message printed. `response.json()` on a body that is not JSON
\* raises a JSONDecodeError: a RequestException (-> None) in requests >= 2.27,
\* a plain ValueError that leaves check_health in older versions.
check_health(response) ==
    IF response = NoResponse THEN {None}
    ELSE IF response.body = "not_json" THEN {None, "raise"}
    ELSE {response.body}

\* main.py 257: `if not health_status`: None and the empty dict are falsy
HealthDataFalsy(health_data) == health_data \in {None, "empty_object"}

\* main.py 152-162: the two flags are mutually exclusive; the ID is any
\* text, the empty text included
DeletionArguments ==
    { [delete_dataset |-> None, delete_all_datasets |-> FALSE],
      [delete_dataset |-> "", delete_all_datasets |-> FALSE],
      [delete_dataset |-> "ds-1", delete_all_datasets |-> FALSE],
      [delete_dataset |-> None, delete_all_datasets |-> TRUE] }

\* main.py 280 and 298: `if args.delete_dataset:` ... `elif
\* args.delete_all_datasets:`: None and the empty text are falsy
DeletionBranch(dataset_id, all_datasets) ==
    IF dataset_id \notin {None, ""} THEN "one"
    ELSE IF all_datasets THEN "all" ELSE "none"

\* cde_client.py 115-143: get_datasets: the list, or None on failure, which
\* main treats like the empty list (main.py 304); each listed dataset has an
\* ID main can find, or none (main.py 325-349)
MaxListed == 2
ListedDatasets ==
    UNION {[1..n -> {"ds-1", "ds-2", None}] : n \in 0..MaxListed}

RunIdle ==
    /\ rpc = "not_started"
    /\ delete_dataset = None
    /\ delete_all_datasets = FALSE
    /\ cde_requests = <<>>
    /\ open_sessions = {}
    /\ health_response = NoResponse
    /\ health_status = "unknown"
    /\ auth_status = "unknown"
    /\ selected = <<>>
    /\ r_idx = 0
    /\ queried = <<>>
    /\ data = [ty \in TypeSet |-> "none"]
    /\ raised_at = None
    /\ is_valid = [ty \in TypeSet |-> "unchecked"]
    /\ proceeded = {}

\* faen_client.py 34, cde_client.py 28: each client creates a
\* requests.Session in __init__; neither class has a close method or is a
\* context manager, and main never closes a session
SessionsCreated == {"faen", "cde"}

\* main.py 78-250: configuration read, clients created
RunStart ==
    /\ rpc = "health"
    /\ \E args \in DeletionArguments :
          /\ delete_dataset = args.delete_dataset
          /\ delete_all_datasets = args.delete_all_datasets
    /\ cde_requests = <<>>
    /\ open_sessions = SessionsCreated
    /\ health_response = NoResponse
    /\ health_status = "unknown"
    /\ auth_status = "unknown"
    /\ selected \in Selections
    /\ r_idx = 0
    /\ queried = <<>>
    /\ data = [ty \in TypeSet |-> "none"]
    /\ raised_at = None
    /\ is_valid = [ty \in TypeSet |-> "unchecked"]
    /\ proceeded = {}
    /\ NON_INTERACTIVE_MODE \in BOOLEAN
    /\ id_style = "int"
    /\ datasets_to_process = <<>>
    /\ upc = "not_started"
    /\ idx = 0
    /\ successful_uploads = <<>>
    /\ cde_series = [ty \in TypeSet |-> <<>>]
    /\ timeseries_lists = [ty \in TypeSet |-> NotAsked]
    /\ sent_rows = [ty \in TypeSet |-> <<>>]
    /\ datapoint_result = [ty \in TypeSet |-> NoResult]
    /\ declined = {}

\* main.py 252-277: cde_client.check_health()
CheckHealth ==
    /\ rpc = "health"
    /\ \E response \in HealthResponses :
          /\ health_response' = response
          /\ \E health_data \in check_health(response) :
                IF health_data = "raise"
                THEN health_status' = "down" /\ rpc' = "error"
                ELSE IF HealthDataFalsy(health_data)
                THEN health_status' = "down" /\ rpc' = AfterHealthFailure
                ELSE /\ health_status' = "healthy"
                     /\ rpc' = IF DeletionBranch(delete_dataset, delete_all_datasets)
                                   = "none"
                               THEN "auth" ELSE "delete"
    /\ UNCHANGED <<delete_dataset, delete_all_datasets, cde_requests, open_sessions, auth_status, selected, r_idx, queried, data, raised_at, is_valid,
                   proceeded>>

\* main.py 279-372: the deletion branch: one dataset after a confirmation,
\* or every listed dataset that has an ID after a confirmation; main returns
\* in every case
HandleDeletion ==
    /\ rpc = "delete"
    /\ \E yes \in ConfirmAnswers(NON_INTERACTIVE_MODE) :
          IF DeletionBranch(delete_dataset, delete_all_datasets) = "one"
          THEN cde_requests' = IF yes THEN <<[method |-> "DELETE", id |-> delete_dataset]>>
                               ELSE <<>>
          ELSE \E datasets \in ListedDatasets :
                  LET with_id == SelectSeq(datasets, LAMBDA d : d # None)
                  IN cde_requests' =
                        <<[method |-> "GET", id |-> "datasets"]>> \o
                        (IF datasets # <<>> /\ yes
                         THEN [i \in 1..Len(with_id) |->
                                  [method |-> "DELETE", id |-> with_id[i]]]
                         ELSE <<>>)
    /\ rpc' = "exit"
    /\ UNCHANGED <<delete_dataset, delete_all_datasets, open_sessions, health_response,
                   health_status, auth_status, selected, r_idx, queried, data, raised_at,
                   is_valid, proceeded>>

\* main.py 375: faen_client.authenticate()
Authenticate ==
    /\ rpc = "auth"
    /\ \E ok \in BOOLEAN :
          IF ok
          THEN auth_status' = "authenticated" /\ rpc' = "confirm_config"
          ELSE auth_status' = "failed" /\ rpc' = AfterAuthFailure
    /\ UNCHANGED <<delete_dataset, delete_all_datasets, cde_requests, open_sessions, health_response, health_status, selected, r_idx, queried, data, raised_at, is_valid,
                   proceeded>>

\* main.py 380-388: "proceed with data retrieval configuration?"
ConfirmConfiguration ==
    /\ rpc = "confirm_config"
    /\ \E yes \in ConfirmAnswers(NON_INTERACTIVE_MODE) :
          IF yes THEN rpc' = "query" /\ r_idx' = 1
                 ELSE rpc' = "exit" /\ r_idx' = r_idx
    /\ UNCHANGED <<delete_dataset, delete_all_datasets, cde_requests, open_sessions, health_response, health_status, auth_status, selected, queried, data, raised_at,
                   is_valid, proceeded>>

\* main.py 471-510: the queries (or the CSV load) of the next selected type.
\* A query that raises ends the block; the queries after it are not made.
QueryDataset ==
    /\ rpc = "query"
    /\ r_idx <= Len(selected)
    /\ LET type == selected[r_idx]
           qs == QueriesOf(type)
       IN \E results \in [1..Len(qs) -> QueryResults] :
             LET failing == {i \in 1..Len(qs) : results[i] = "raise"}
                 made == IF failing = {} THEN Len(qs)
                         ELSE CHOOSE i \in failing : \A j \in failing : i <= j
             IN /\ queried' = queried \o SubSeq(qs, 1, made)
                /\ IF failing # {}
                   THEN /\ raised_at' = type
                        /\ rpc' = AfterQueryRaised
                        /\ data' = data
                   ELSE /\ raised_at' = raised_at
                        /\ rpc' = rpc
                        /\ data' = [data EXCEPT ![type] =
                                      IF \A i \in 1..Len(qs) : results[i] = "records"
                                      THEN "records" ELSE "empty"]
    /\ r_idx' = r_idx + 1
    /\ UNCHANGED <<delete_dataset, delete_all_datasets, cde_requests, open_sessions, health_response, health_status, auth_status, selected, is_valid, proceeded>>

\* main.py 530-538: "continue with dataset generation?"
QueriesDone ==
    /\ rpc = "query"
    /\ r_idx > Len(selected)
    /\ rpc' = "confirm_generate"
    /\ UNCHANGED <<delete_dataset, delete_all_datasets, cde_requests, open_sessions, health_response, health_status, auth_status, selected, r_idx, queried, data, raised_at,
                   is_valid, proceeded>>

\* main.py 634-767: one description per selected type that has data
DatasetsWithData ==
    LET keep == {i \in 1..Len(selected) : data[selected[i]] = "records"}
        Place(k) == CHOOSE i \in keep : Cardinality({j \in keep : j <= i}) = k
    IN [k \in 1..Cardinality(keep) |->
           [type |-> selected[Place(k)], has_file_path |-> FALSE]]

\* main.py 530-767 and 1223-1227: the user confirms; without data, or without
\* a description that can be generated, main returns
GenerateDatasets ==
    /\ rpc = "confirm_generate"
    /\ \E yes \in ConfirmAnswers(NON_INTERACTIVE_MODE) :
          IF yes /\ DatasetsWithData # <<>>
          THEN /\ datasets_to_process' = DatasetsWithData
               /\ rpc' = "process"
               /\ r_idx' = 1
          ELSE /\ rpc' = "exit"
               /\ UNCHANGED <<datasets_to_process, r_idx>>
    /\ UNCHANGED <<delete_dataset, delete_all_datasets, cde_requests, open_sessions, health_response, health_status, auth_status, selected, queried, data, raised_at,
                   is_valid, proceeded>>

\* main.py 832-849: the description is saved, and gets its file_path, when
\* it was kept and the user agrees to save it
SavedWhateverTheAnswer(after, save) == after = "proceed"
Saved(after, save) == after = "proceed" /\ save

\* main.py 778-848: one turn of the processing loop: validate, confirm, save
ProcessDataset ==
    /\ rpc = "process"
    /\ r_idx <= Len(datasets_to_process)
    /\ LET type == datasets_to_process[r_idx].type
       IN \E valid \in BOOLEAN, answer \in BOOLEAN,
             save \in ConfirmAnswers(NON_INTERACTIVE_MODE) :
             LET after == IF valid THEN "proceed"
                          ELSE AfterInvalid(NON_INTERACTIVE_MODE, answer)
             IN /\ is_valid' = [is_valid EXCEPT ![type] =
                                   IF valid THEN "valid" ELSE "invalid"]
                /\ proceeded' = IF ~valid /\ ~NON_INTERACTIVE_MODE /\ answer
                                THEN proceeded \cup {type} ELSE proceeded
                /\ IF after = "raise"
                   THEN /\ raised_at' = type
                        /\ rpc' = "error"
                        /\ UNCHANGED <<datasets_to_process, declined>>
                   ELSE /\ raised_at' = raised_at
                        /\ rpc' = rpc
                        /\ declined' = IF after = "proceed" /\ ~save
                                       THEN declined \cup {type} ELSE declined
                        /\ datasets_to_process' =
                              IF Saved(after, save)
                              THEN [datasets_to_process EXCEPT
                                       ![r_idx].has_file_path = TRUE]
                              ELSE datasets_to_process
    /\ r_idx' = r_idx + 1
    /\ UNCHANGED <<delete_dataset, delete_all_datasets, cde_requests, open_sessions, health_response, health_status, auth_status, selected, queried, data>>

\* main.py 850: the loop is over, the upload phase follows
ProcessDone ==
    /\ rpc = "process"
    /\ r_idx > Len(datasets_to_process)
    /\ rpc' = "upload"
    /\ upc' = "confirm_upload"
    /\ UNCHANGED <<delete_dataset, delete_all_datasets, cde_requests, open_sessions, health_response, health_status, auth_status, selected, r_idx, queried, data, raised_at,
                   is_valid, proceeded, datasets_to_process>>

\* ================================================ the date range prompt
VARIABLES
    non_interactive,  \* the non_interactive argument or NON_INTERACTIVE=1
    start_date_str,   \* --start-date, or None
    end_date_str,     \* --end-date, or None
    start_input,      \* what the user typed at the start prompt
    end_input,        \* what the user typed at the end prompt
    range_start,      \* the start date returned
    range_end,        \* the end date returned
    dpc               \* "not_called" | "called" | "prompt" | "returned"

dvars == <<non_interactive, start_date_str, end_date_str, start_input, end_input,
           range_start, range_end, dpc>>

\* Dates are day numbers counted from 2025-05-01 = 1.
\* console_utils.py 226-227: the defaults, May 1 and June 1, 2025
default_start_date == 1
default_end_date == 32

\* A date after the default end, and a string strptime rejects
TsLateDate == "2025-06-15"
LateDay == 46
WrongFormat == "01/05/2025"

\* `datetime.strptime(s, "%Y-%m-%d")` raises ValueError
StrptimeFails(s) == s \notin {TsDate, TsNextDate, TsLateDate}
\* `datetime.strptime(s, "%Y-%m-%d").date()`
strptime(s) ==
    CASE s = TsDate -> 1
      [] s = TsNextDate -> 2
      [] s = TsLateDate -> LateDay

\* console_utils.py 216-218 and 273-275: start after end -> swapped
OrderedRangeAsGiven(s, e) == <<s, e>>
OrderedRange(s, e) == IF s > e THEN <<e, s>> ELSE <<s, e>>

\* The command-line values: absent, empty, a date, not a date
DateArguments == {None, "", TsDate, TsNextDate, TsLateDate, WrongFormat}
\* What a prompt can bring: Enter alone, a date, not a date, Ctrl-C, end of input
KeyboardInterrupt == "KeyboardInterrupt"
EOFError == "EOFError"
NotPrompted == "not prompted"
PromptInputs == {"", TsDate, TsNextDate, TsLateDate, WrongFormat,
                 KeyboardInterrupt, EOFError}

DateIdle ==
    /\ non_interactive = FALSE
    /\ start_date_str = None
    /\ end_date_str = None
    /\ start_input = NotPrompted
    /\ end_input = NotPrompted
    /\ range_start = NoDate
    /\ range_end = NoDate
    /\ dpc = "not_called"

\* main.py 442-444: get_date_range_input(args.start_date, args.end_date,
\* NON_INTERACTIVE_MODE)
DateStart ==
    /\ non_interactive \in BOOLEAN
    /\ start_date_str \in DateArguments
    /\ end_date_str \in DateArguments
    /\ start_input = NotPrompted
    /\ end_input = NotPrompted
    /\ range_start = NoDate
    /\ range_end = NoDate
    /\ dpc = "called"

\* console_utils.py 206-222: with both dates given in non-interactive mode
\* they are parsed, ordered and returned; a ValueError, a missing date or
\* interactive mode leads to the prompts
DatesFromArguments ==
    /\ dpc = "called"
    /\ IF /\ non_interactive
          /\ start_date_str \notin {None, ""}
          /\ end_date_str \notin {None, ""}
          /\ ~StrptimeFails(start_date_str)
          /\ ~StrptimeFails(end_date_str)
       THEN LET range == OrderedRange(strptime(start_date_str),
                                      strptime(end_date_str))
            IN /\ range_start' = range[1]
               /\ range_end' = range[2]
               /\ dpc' = "returned"
       ELSE /\ dpc' = "prompt"
            /\ UNCHANGED <<range_start, range_end>>
    /\ UNCHANGED <<non_interactive, start_date_str, end_date_str, start_input,
                   end_input>>

\* console_utils.py 239-251 and 258-270: one prompt: Enter or an invalid
\* date gives the default
DateOfInput(typed, default) ==
    IF typed = "" \/ StrptimeFails(typed) THEN default ELSE strptime(typed)

\* console_utils.py 224-286: the two prompts; Ctrl-C or the end of input at
\* either prompt returns the defaults
DatesFromPrompts ==
    /\ dpc = "prompt"
    /\ \E typed_start \in PromptInputs :
          /\ start_input' = typed_start
          /\ IF typed_start \in {KeyboardInterrupt, EOFError}
             THEN /\ end_input' = end_input
                  /\ range_start' = default_start_date
                  /\ range_end' = default_end_date
             ELSE \E typed_end \in PromptInputs :
                     /\ end_input' = typed_end
                     /\ IF typed_end \in {KeyboardInterrupt, EOFError}
                        THEN /\ range_start' = default_start_date
                             /\ range_end' = default_end_date
                        ELSE LET range == OrderedRange(
                                     DateOfInput(typed_start, default_start_date),
                                     DateOfInput(typed_end, default_end_date))
                             IN /\ range_start' = range[1]
                                /\ range_end' = range[2]
    /\ dpc' = "returned"
    /\ UNCHANGED <<non_interactive, start_date_str, end_date_str>>

\* ========================================= the dataset description builders
VARIABLES
    k_kind,           \* "edg" | "mrae": the generator called
    k_start,          \* start_date, a [year, day] record
    k_end,            \* end_date
    uuids_issued,     \* how many identifiers uuid.uuid4() has handed out
    k_field,          \* index of the catalog entry the loop is at
    timeseries_entries,
    dataset_definition,
    kpc               \* "not_called" | "loop" | "returned"

kvars == <<k_kind, k_start, k_end, uuids_issued, k_field, timeseries_entries,
           dataset_definition, kpc>>

\* edg.py 235-254, mrae.py 170-180: the field catalogs
FIELD_DEFINITIONS(kind) ==
    IF kind = "edg"
    THEN << [field_id |-> 1, field_name |-> "consumedEnergy", unit |-> "kWh",
             averagable |-> FALSE, summable |-> TRUE, anonymizable |-> FALSE],
            [field_id |-> 2, field_name |-> "generatedEnergy", unit |-> "kWh",
             averagable |-> FALSE, summable |-> TRUE, anonymizable |-> FALSE] >>
    ELSE << [field_id |-> 1, field_name |-> "consumedEnergy", unit |-> "kWh",
             averagable |-> FALSE, summable |-> TRUE, anonymizable |-> FALSE] >>

\* edg.py 257, mrae.py 183
MONTHLY_GRANULARITY == 2592000

\* edg.py 326, mrae.py 260: `str(uuid.uuid4())`: an identifier no earlier
\* call returned, here the number of the call
uuid4Repeated(issued) == 1
uuid4(issued) == issued + 1

\* edg.py 291-298, mrae.py 227-234
TitleOf(kind, from_date, to_date) ==
    LET subject == IF kind = "edg" THEN "EDG West Bankya Energy"
                   ELSE "MRAE Charging Infrastructure"
    IN IF from_date.year = to_date.year
       THEN <<subject, from_date.year>>
       ELSE <<subject, from_date.year, to_date.year>>

\* edg.py 328-346, mrae.py 262-278: one placeholder
TimeseriesEntry(kind, field, guid, from_date, to_date) ==
    [id |-> <<"http://datacellar.org/timeseries/", guid>>,
     timeSeriesId |-> guid,
     datasetFieldID |-> field.field_id,
     startDate |-> <<from_date, "T00:00:00Z">>,
     endDate |-> <<to_date, "T23:59:59Z">>,
     granularity |-> MONTHLY_GRANULARITY,
     dataPoints |-> <<>>,
     timeSeriesMetadata |-> IF kind = "edg" THEN "datacellar:EnergyMeter"
                            ELSE "datacellar:EVChargingStation"]

\* edg.py 388-403, mrae.py 313-330: the datasetFields of the document
DatasetFields(kind) ==
    [i \in 1..Len(FIELD_DEFINITIONS(kind)) |->
        [datasetFieldID |-> FIELD_DEFINITIONS(kind)[i].field_id,
         name |-> FIELD_DEFINITIONS(kind)[i].field_name,
         unit |-> FIELD_DEFINITIONS(kind)[i].unit]]

NoDefinition == [name |-> <<>>, datasetFields |-> <<>>, timeSeries |-> <<>>]

\* The date ranges: years and days of the year, start not after end
BuildYears == {2025, 2026}
MaxBuildDay == 2
BuildDates == [year : BuildYears, day : 1..MaxBuildDay]
NoBuildDate == [year |-> 0, day |-> 0]
DateNotAfter(a, b) == a.year < b.year \/ (a.year = b.year /\ a.day <= b.day)
\* Identifiers handed out before the call
MaxIssuedBefore == 2

BuilderIdle ==
    /\ k_kind = None
    /\ k_start = NoBuildDate
    /\ k_end = NoBuildDate
    /\ uuids_issued = 0
    /\ k_field = 0
    /\ timeseries_entries = <<>>
    /\ dataset_definition = NoDefinition
    /\ kpc = "not_called"

\* main.py 740-744, mrae.py 479-504: generate_dataset_definition(start_date,
\* end_date, ...)
BuilderStart ==
    /\ k_kind \in {"edg", "mrae"}
    /\ k_start \in BuildDates
    /\ k_end \in BuildDates
    /\ DateNotAfter(k_start, k_end)
    /\ uuids_issued \in 0..MaxIssuedBefore
    /\ k_field = 1
    /\ timeseries_entries = <<>>
    /\ dataset_definition = NoDefinition
    /\ kpc = "loop"

\* edg.py 316-346, mrae.py 250-279: one turn of the loop over the catalog
AppendTimeseriesEntry ==
    /\ kpc = "loop"
    /\ k_field <= Len(FIELD_DEFINITIONS(k_kind))
    /\ LET timeseries_guid == uuid4(uuids_issued)
       IN timeseries_entries' =
              Append(timeseries_entries,
                     TimeseriesEntry(k_kind, FIELD_DEFINITIONS(k_kind)[k_field],
                                     timeseries_guid, k_start, k_end))
    /\ uuids_issued' = uuids_issued + 1
    /\ k_field' = k_field + 1
    /\ UNCHANGED <<k_kind, k_start, k_end, dataset_definition, kpc>>

\* edg.py 352-432, mrae.py 283-335: the document is assembled and returned
ReturnDefinition ==
    /\ kpc = "loop"
    /\ k_field > Len(FIELD_DEFINITIONS(k_kind))
    /\ dataset_definition' =
          [name |-> TitleOf(k_kind, k_start, k_end),
           datasetFields |-> DatasetFields(k_kind),
           timeSeries |-> timeseries_entries]
    /\ kpc' = "returned"
    /\ UNCHANGED <<k_kind, k_start, k_end, uuids_issued, k_field, timeseries_entries>>

\* ============================================ the requests of a chunked query
VARIABLES
    c_kind,           \* "consumption" | "generation" | "weather"
    query_given,      \* the caller's query document as it was at the call
    base_query,       \* the caller's query document, the object itself
    c_limit,          \* the `limit` argument
    c_sort,           \* the `sort` argument: None, "" or a sort key
    c_eumed,          \* the `eumed` argument (consumption only)
    c_current,        \* current_date
    chunk_requests,   \* the request bodies or parameters sent, in order
    cpc               \* "not_called" | "loop" | "returned"

cvars == <<c_kind, query_given, base_query, c_limit, c_sort, c_eumed, c_current,
           chunk_requests, cpc>>

\* A query document: the datetime filter of the kind and any other filters
OtherFilters == {"user_id", "device_id"}
QueryDocument(kind, gte, lt, others) ==
    [k \in {DatetimeKey(kind)} \cup others |->
        IF k = DatetimeKey(kind) THEN [gte |-> gte, lt |-> lt] ELSE "abc"]

\* faen_client.py 227-231, 404-408, 578-582: `chunk_query = base_query.copy()`
\* then `chunk_query[key] = {...}`: the assignment goes to the copy
AssignInPlace(base, key, value) ==
    [caller |-> [base EXCEPT ![key] = value], chunk |-> [base EXCEPT ![key] = value]]
CopyThenAssign(base, key, value) ==
    [caller |-> base, chunk |-> [base EXCEPT ![key] = value]]

\* faen_client.py 412, 586: `json.dumps(chunk_query)`
json_dumps(document) == [json |-> document]

\* faen_client.py 233-240 (POST body), 411-417 and 585-591 (GET parameters):
\* `sort` is added when it is truthy, `eumed` exists for consumption only
ChunkRequest(kind, chunk_query, limit, sort, eumed) ==
    [k \in {"query", "limit"}
           \cup (IF kind = "consumption" THEN {"eumed"} ELSE {})
           \cup (IF Truthy(sort) THEN {"sort"} ELSE {}) |->
        CASE k = "query" -> IF kind = "consumption" THEN chunk_query
                            ELSE json_dumps(chunk_query)
          [] k = "limit" -> limit
          [] k = "eumed" -> eumed
          [] OTHER -> sort]

SortArguments == {None, "", "+datetime"}
LimitArguments == {50, 1000}
NoDocument == [none |-> "none"]

ChunkedIdle ==
    /\ c_kind = None
    /\ query_given = NoDocument
    /\ base_query = NoDocument
    /\ c_limit = 0
    /\ c_sort = None
    /\ c_eumed = FALSE
    /\ c_current = 0
    /\ chunk_requests = <<>>
    /\ cpc = "not_called"

\* faen_client.py 126-132, 314-322, 488-496: the chunked method is entered
\* with the caller's document when its range exceeds ten days
ChunkedStart ==
    /\ c_kind \in ChunkableKinds
    /\ \E s \in 1..MaxStartDay, n \in (ChunkThresholdDays + 1)..MaxSpan,
          others \in SUBSET OtherFilters :
          /\ query_given = QueryDocument(c_kind, s, s + n, others)
          /\ c_current = s
    /\ base_query = query_given
    /\ c_limit \in LimitArguments
    /\ c_sort \in SortArguments
    /\ c_eumed \in (IF c_kind = "consumption" THEN BOOLEAN ELSE {FALSE})
    /\ chunk_requests = <<>>
    /\ cpc = "loop"

\* faen_client.py 211-273, 388-450, 562-624: one turn of the chunk loop; the
\* answer, whatever it is, does not change what the next turn sends
SendChunkRequest ==
    /\ cpc = "loop"
    /\ LET key == DatetimeKey(c_kind)
           to_date == query_given[key].lt
       IN /\ LoopContinues(c_current, to_date)
          /\ LET chunk_end == ChunkEnd(c_current, to_date)
                 assigned == CopyThenAssign(base_query, key,
                                            [gte |-> c_current, lt |-> chunk_end])
             IN /\ base_query' = assigned.caller
                /\ chunk_requests' =
                      Append(chunk_requests,
                             ChunkRequest(c_kind, assigned.chunk, c_limit, c_sort,
                                          c_eumed))
                /\ c_current' = chunk_end
    /\ UNCHANGED <<c_kind, query_given, c_limit, c_sort, c_eumed, cpc>>

\* faen_client.py 275-278: the loop is over
ChunkedQueryReturn ==
    /\ cpc = "loop"
    /\ ~LoopContinues(c_current, query_given[DatetimeKey(c_kind)].lt)
    /\ cpc' = "returned"
    /\ UNCHANGED <<c_kind, query_given, base_query, c_limit, c_sort, c_eumed,
                   c_current, chunk_requests>>

\* The parts that are one function call each
svars == <<dvars, kvars, cvars>>
StandaloneIdle == DateIdle /\ BuilderIdle /\ ChunkedIdle

\* ------------------------------------------------- specifications
vars == <<qvars, uvars, bvars, mvars, tvars, gvars, rvars, svars>>

\* Part 1: the FAEN client
QueryInit == Init /\ UploadIdle /\ BatchIdle /\ MapperIdle /\ TransformIdle /\ GridIdle /\ RunIdle /\ StandaloneIdle

Next ==
    \/ MainAuthenticate /\ UNCHANGED <<svars, uvars, bvars, mvars, tvars, gvars, rvars>>
    \/ MainAuthReply /\ UNCHANGED <<svars, uvars, bvars, mvars, tvars, gvars, rvars>>
    \/ \E kind \in QueryKinds : CallQuery(kind) /\ UNCHANGED <<svars, uvars, bvars, mvars, tvars, gvars, rvars>>
    \/ AuthReply /\ UNCHANGED <<svars, uvars, bvars, mvars, tvars, gvars, rvars>>
    \/ SendSingle /\ UNCHANGED <<svars, uvars, bvars, mvars, tvars, gvars, rvars>>
    \/ SingleReply /\ UNCHANGED <<svars, uvars, bvars, mvars, tvars, gvars, rvars>>
    \/ ChunkSend /\ UNCHANGED <<svars, uvars, bvars, mvars, tvars, gvars, rvars>>
    \/ ChunkReply /\ UNCHANGED <<svars, uvars, bvars, mvars, tvars, gvars, rvars>>
    \/ ChunkReturn /\ UNCHANGED <<svars, uvars, bvars, mvars, tvars, gvars, rvars>>
    \/ Finish /\ UNCHANGED <<svars, uvars, bvars, mvars, tvars, gvars, rvars>>

Spec == QueryInit /\ [][Next]_vars

\* Part 2: registration and datapoint upload
UploadInit == QueryIdle /\ UploadStart /\ BatchIdle /\ MapperIdle /\ TransformIdle /\ GridIdle /\ RunIdle /\ StandaloneIdle

UploadNext ==
    \/ ConfirmUpload /\ UNCHANGED <<svars, qvars, bvars, mvars, tvars, gvars, rvars>>
    \/ RegisterDataset /\ UNCHANGED <<svars, qvars, bvars, mvars, tvars, gvars, rvars>>
    \/ ConfirmDatapoints /\ UNCHANGED <<svars, qvars, bvars, mvars, tvars, gvars, rvars>>
    \/ UploadDatapoints /\ UNCHANGED <<svars, qvars, bvars, mvars, tvars, gvars, rvars>>
    \/ UploadDone /\ UNCHANGED <<svars, qvars, bvars, mvars, tvars, gvars, rvars>>

SpecUpload == UploadInit /\ [][UploadNext]_vars

\* Part 3: one call of add_datapoints_batch
BatchInit == QueryIdle /\ UploadIdle /\ BatchStartState /\ MapperIdle /\ TransformIdle /\ GridIdle /\ RunIdle /\ StandaloneIdle

BatchNext ==
    \/ BatchReturnEmpty /\ UNCHANGED <<svars, qvars, uvars, mvars, tvars, gvars, rvars>>
    \/ BatchSaveCsv /\ UNCHANGED <<svars, qvars, uvars, mvars, tvars, gvars, rvars>>
    \/ BatchPost /\ UNCHANGED <<svars, qvars, uvars, mvars, tvars, gvars, rvars>>
    \/ BatchReply /\ UNCHANGED <<svars, qvars, uvars, mvars, tvars, gvars, rvars>>
    \/ BatchReturn /\ UNCHANGED <<svars, qvars, uvars, mvars, tvars, gvars, rvars>>

SpecBatch == BatchInit /\ [][BatchNext]_vars

\* Part 4: one call of a field mapper on any descriptor list
MapperInit == QueryIdle /\ UploadIdle /\ BatchIdle /\ MapperStart(Descriptors) /\ TransformIdle /\ GridIdle /\ RunIdle /\ StandaloneIdle

MapperNext == ResolveOnce /\ UNCHANGED <<svars, qvars, uvars, bvars, tvars, gvars, rvars>>

SpecMapper == MapperInit /\ [][MapperNext]_vars

\* Part 5: repeated calls of a field mapper
ResolveAgainInit == QueryIdle /\ UploadIdle /\ BatchIdle /\ MapperStart(ProbeDescriptors) /\ TransformIdle /\ GridIdle /\ RunIdle /\ StandaloneIdle

ResolveAgainNext == ResolveAgain /\ UNCHANGED <<svars, qvars, uvars, bvars, tvars, gvars, rvars>>

SpecResolveAgain == ResolveAgainInit /\ [][ResolveAgainNext]_vars

\* Part 6: one call of a transformer on any record list and mapping
TransformInit == QueryIdle /\ UploadIdle /\ BatchIdle /\ MapperIdle /\ TransformStart(PresenceTimestamps, NumberValues) /\ GridIdle /\ RunIdle /\ StandaloneIdle

TransformNext ==
    \/ TransformEdg /\ UNCHANGED <<svars, qvars, uvars, bvars, mvars, gvars, rvars>>
    \/ TransformMrae /\ UNCHANGED <<svars, qvars, uvars, bvars, mvars, gvars, rvars>>

SpecTransform == TransformInit /\ [][TransformNext]_vars

\* Part 7: one call of a transformer on records of every timestamp form
NormalizeInit ==
    QueryIdle /\ UploadIdle /\ BatchIdle /\ MapperIdle /\ GridIdle /\ RunIdle /\ StandaloneIdle
        /\ TransformStart(TimestampForms, PlainValues)

SpecNormalize == NormalizeInit /\ [][TransformNext]_vars

\* Part 7b: one call of a transformer on records with malformed dates or values
MalformedInit ==
    QueryIdle /\ UploadIdle /\ BatchIdle /\ MapperIdle /\ GridIdle /\ RunIdle /\ StandaloneIdle
        /\ TransformStart(DatesGoodAndBad, NumbersGoodAndBad)

SpecMalformed == MalformedInit /\ [][TransformNext]_vars

\* Part 8: aggregate_by_timestamp on any list of loaded records
AggregateInit ==
    QueryIdle /\ UploadIdle /\ BatchIdle /\ MapperIdle /\ TransformIdle /\ RunIdle /\ StandaloneIdle
        /\ AggregateStart(RecordsOver(GridTimestamps, GridReadings))

AggregateNext ==
    AggregateByTimestamp /\ UNCHANGED <<svars, qvars, uvars, bvars, mvars, tvars, rvars>>

SpecAggregate == AggregateInit /\ [][AggregateNext]_vars

\* Part 10: get_aggregated_data on any file and date filter
LoadInit ==
    QueryIdle /\ UploadIdle /\ BatchIdle /\ MapperIdle /\ TransformIdle /\ RunIdle /\ StandaloneIdle /\ LoadStart

LoadNext ==
    \/ LoadCsv /\ UNCHANGED <<svars, qvars, uvars, bvars, mvars, tvars, rvars>>
    \/ AggregateByTimestamp /\ UNCHANGED <<svars, qvars, uvars, bvars, mvars, tvars, rvars>>

SpecLoad == LoadInit /\ [][LoadNext]_vars

\* Part 11: the run of main from the health check to the end of the upload phase
RunInit ==
    QueryIdle /\ BatchIdle /\ MapperIdle /\ TransformIdle /\ GridIdle /\ RunStart /\ StandaloneIdle

RunNext ==
    \/ CheckHealth /\ UNCHANGED <<svars, qvars, uvars, bvars, mvars, tvars, gvars>>
    \/ HandleDeletion /\ UNCHANGED <<svars, qvars, uvars, bvars, mvars, tvars, gvars>>
    \/ Authenticate /\ UNCHANGED <<svars, qvars, uvars, bvars, mvars, tvars, gvars>>
    \/ ConfirmConfiguration /\ UNCHANGED <<svars, qvars, uvars, bvars, mvars, tvars, gvars>>
    \/ QueryDataset /\ UNCHANGED <<svars, qvars, uvars, bvars, mvars, tvars, gvars>>
    \/ QueriesDone /\ UNCHANGED <<svars, qvars, uvars, bvars, mvars, tvars, gvars>>
    \/ GenerateDatasets
          /\ UNCHANGED <<svars, qvars, bvars, mvars, tvars, gvars, NON_INTERACTIVE_MODE, id_style,
                         upc, idx, successful_uploads, cde_series, timeseries_lists,
                         sent_rows, datapoint_result, declined>>
    \/ ProcessDataset
          /\ UNCHANGED <<svars, qvars, bvars, mvars, tvars, gvars, NON_INTERACTIVE_MODE, id_style,
                         upc, idx, successful_uploads, cde_series, timeseries_lists,
                         sent_rows, datapoint_result>>
    \/ ProcessDone
          /\ UNCHANGED <<svars, qvars, bvars, mvars, tvars, gvars, NON_INTERACTIVE_MODE, id_style,
                         idx, successful_uploads, cde_series, timeseries_lists,
                         sent_rows, datapoint_result, declined>>
    \/ ConfirmUpload /\ UNCHANGED <<svars, qvars, bvars, mvars, tvars, gvars, rvars>>
    \/ RegisterDataset /\ UNCHANGED <<svars, qvars, bvars, mvars, tvars, gvars, rvars>>
    \/ ConfirmDatapoints /\ UNCHANGED <<svars, qvars, bvars, mvars, tvars, gvars, rvars>>
    \/ UploadDatapoints /\ UNCHANGED <<svars, qvars, bvars, mvars, tvars, gvars, rvars>>
    \/ UploadDone /\ UNCHANGED <<svars, qvars, bvars, mvars, tvars, gvars, rvars>>

SpecRun == RunInit /\ [][RunNext]_vars

\* Part 9: aggregate_by_timestamp on a list and on its reorderings
ReorderInit ==
    QueryIdle /\ UploadIdle /\ BatchIdle /\ MapperIdle /\ TransformIdle /\ RunIdle /\ StandaloneIdle
        /\ AggregateStart(RecordsOver({TsNaive, TsNextDate},
                                      {"consumedEnergy"} \X RoundingValues))

ReorderNext ==
    \/ AggregateByTimestamp /\ UNCHANGED <<svars, qvars, uvars, bvars, mvars, tvars, rvars>>
    \/ AggregateReordered /\ UNCHANGED <<svars, qvars, uvars, bvars, mvars, tvars, rvars>>

SpecReorder == ReorderInit /\ [][ReorderNext]_vars

\* Part 12: one call of get_date_range_input
DateRangeInit ==
    QueryIdle /\ UploadIdle /\ BatchIdle /\ MapperIdle /\ TransformIdle /\ GridIdle
        /\ RunIdle /\ DateStart /\ BuilderIdle /\ ChunkedIdle

DateRangeNext ==
    \/ DatesFromArguments /\ UNCHANGED <<qvars, uvars, bvars, mvars, tvars, gvars, rvars, kvars, cvars>>
    \/ DatesFromPrompts /\ UNCHANGED <<qvars, uvars, bvars, mvars, tvars, gvars, rvars, kvars, cvars>>

SpecDateRange == DateRangeInit /\ [][DateRangeNext]_vars

\* Part 13: one call of a description builder
BuilderInit ==
    QueryIdle /\ UploadIdle /\ BatchIdle /\ MapperIdle /\ TransformIdle /\ GridIdle
        /\ RunIdle /\ DateIdle /\ BuilderStart /\ ChunkedIdle

BuilderNext ==
    \/ AppendTimeseriesEntry /\ UNCHANGED <<qvars, uvars, bvars, mvars, tvars, gvars, rvars, dvars, cvars>>
    \/ ReturnDefinition /\ UNCHANGED <<qvars, uvars, bvars, mvars, tvars, gvars, rvars, dvars, cvars>>

SpecBuilder == BuilderInit /\ [][BuilderNext]_vars

\* Part 14: one call of a chunked query method, request by request
ChunkedInit ==
    QueryIdle /\ UploadIdle /\ BatchIdle /\ MapperIdle /\ TransformIdle /\ GridIdle
        /\ RunIdle /\ DateIdle /\ BuilderIdle /\ ChunkedStart

ChunkedNext ==
    \/ SendChunkRequest /\ UNCHANGED <<qvars, uvars, bvars, mvars, tvars, gvars, rvars, dvars, kvars>>
    \/ ChunkedQueryReturn /\ UNCHANGED <<qvars, uvars, bvars, mvars, tvars, gvars, rvars, dvars, kvars>>

SpecChunked == ChunkedInit /\ [][ChunkedNext]_vars

\* ================================================================= properties
\* The bound pairs of a sequence of requests.
Ranges(reqs) == [i \in 1..Len(reqs) |-> <<reqs[i].gte, reqs[i].lt>>]

\* The chunking of [s, e) the specification describes: consecutive 10-day
\* ranges from s, the last one cut at e.
NumChunks(s, e) == ((e - s) + 9) \div 10
ExpectedChunks(s, e) ==
    [i \in 1..NumChunks(s, e) |-> <<s + 10 * (i - 1), Min(s + 10 * i, e)>>]

RECURSIVE ConcatOk(_)
ConcatOk(rs) ==
    IF rs = <<>> THEN <<>>
    ELSE (IF Head(rs).ok THEN Head(rs).data ELSE <<>>) \o ConcatOk(Tail(rs))

\* C1: for a user range [start, end) of more than 10 days, the chunks the
\* chunked loop requests are exactly the consecutive 10-day ranges covering
\* [start, end): ascending, contiguous, union [start, end), last chunk
\* (span mod 10) days long (2025-05-01..2025-05-15 gives [01,11) and [11,15)).
C1_ChunksCoverUserRange ==
    (pc = "returned" /\ mode = "chunked" /\ end_date - start_date > 10)
        => Ranges(requests) = ExpectedChunks(start_date, end_date)

\* C2: for a user range [start, end) of 10 days or fewer, each of the
\* consumption, generation and weather queries issues exactly one request,
\* carrying the full range, and does not chunk.
C2_ShortRangeSingleRequest ==
    (pc = "returned" /\ op \in ChunkableKinds /\ end_date - start_date <= 10)
        => /\ mode = "single"
           /\ Ranges(requests) = << <<start_date, end_date>> >>

\* C3: the end of the user range is exclusive: no request to the consumption,
\* generation or weather endpoint asks for records timestamped at or after
\* end_date (its upper bound never exceeds end_date).
C3_EndExclusive ==
    \A i \in 1..Len(requests) :
        requests[i].kind \in ChunkableKinds => requests[i].lt <= end_date

\* C4: in a chunked query no chunk failure propagates or stops the loop:
\* the method never raises, and when it returns every chunk of the queried
\* range has been requested exactly once, whatever chunks failed.
C4_ChunkFailuresSwallowed ==
    mode = "chunked" =>
        /\ pc # "raised"
        /\ pc = "returned" =>
              /\ Ranges(requests) = ExpectedChunks(query.gte, query.lt)
              /\ Len(responses) = Len(requests)
              /\ \A i \in 1..Len(result) : result[i] \in Int

C4_Witness ==
    /\ pc = "returned"
    /\ mode = "chunked"
    /\ Len(requests) >= 2
    /\ \A i \in 1..Len(responses) : ~responses[i].ok
    /\ result = <<>>

\* C5: the result of a chunked query is the concatenation, in chunk order, of
\* the record lists of the chunks that succeeded; failed chunks add nothing.
C5_ResultIsConcatenation ==
    (pc = "returned" /\ mode = "chunked") => result = ConcatOk(responses)

C5_Witness ==
    /\ pc = "returned"
    /\ mode = "chunked"
    /\ Len(responses) = 3
    /\ responses[1].ok /\ Len(responses[1].data) = 2
    /\ ~responses[2].ok
    /\ responses[3].ok /\ Len(responses[3].data) = 1
    /\ Len(result) = 3

\* C6: a query whose span exceeds 10 days is split into chunks of at most 10
\* days, requested strictly one after the other: a request is issued only
\* when every earlier one has been answered, so at most one is in flight.
C6_SequentialChunks ==
    /\ inflight <= 1
    /\ Len(requests) = Len(responses) + inflight
    /\ (mode # "none" /\ op \in ChunkableKinds /\ query.lt - query.gte > 10)
          => mode = "chunked"
    /\ mode = "chunked" =>
          \A i \in 1..Len(requests) :
              /\ requests[i].lt - requests[i].gte <= 10
              /\ i < Len(requests) => requests[i].lt - requests[i].gte = 10

C6_Witness ==
    /\ mode = "chunked"
    /\ inflight = 1
    /\ Len(requests) = 2
    /\ Len(responses) = 1

\* C7: a single-request query whose request fails re-raises to the caller and
\* returns no records; it returns the response's records otherwise.
C7_SingleFailureRaises ==
    (mode = "single" /\ pc \in {"returned", "raised"} /\ Len(responses) = 1) =>
        /\ ~responses[1].ok => (pc = "raised" /\ result = <<>>)
        /\ responses[1].ok => (pc = "returned" /\ result = responses[1].data)

C7_Witness ==
    /\ mode = "single"
    /\ op \in {"consumption", "generation", "mrae"}
    /\ pc = "raised"
    /\ Len(responses) = 1
    /\ ~responses[1].ok

\* C8: a query method entered without a token performs the credential exchange
\* first; if the exchange fails the method raises with the exchange tried once
\* and no data request sent; every data request carries a token.
C8_NoUnauthenticatedRequest ==
    /\ \A i \in 1..Len(requests) : requests[i].auth # NoToken
    /\ pc \in {"single_send", "single_wait", "chunk_loop", "chunk_wait", "returned"}
          => access_token # NoToken
    /\ pc = "authenticating" => (requests = <<>> /\ opAuth = <<>>)
    /\ Len(opAuth) <= 1
    /\ opAuth = <<FALSE>> =>
          /\ pc \in {"raised", "idle"}
          /\ requests = <<>>
          /\ access_token = NoToken

C8_Witness ==
    /\ pc = "raised"
    /\ opAuth = <<FALSE>>
    /\ requests = <<>>
    /\ authCount = 1

\* C9: once a credential exchange has succeeded the token is never cleared or
\* rewritten and no further credential exchange is sent.
C9_TokenWriteOnce ==
    [][access_token # NoToken =>
          (access_token' = access_token /\ authCount' = authCount)]_vars

C9_Witness ==
    /\ access_token # NoToken
    /\ opsDone >= 1
    /\ pc = "single_wait"
    /\ Len(requests) = 1
    /\ opAuth = <<>>

\* Identifiers the platform assigned to the series it lists for a dataset, and
\* the identifiers the tool generated locally for the placeholders.
ListedIds(type) ==
    {timeseries_lists[type].list[i].id : i \in 1..Len(timeseries_lists[type].list)}
PlaceholderIds ==
    UNION {{PersistedSeries(ty, st)[i].guid : i \in 1..Len(PersistedSeries(ty, st))} :
              ty \in TypeSet, st \in {"int", "str"}}
RegisteredTypes ==
    {successful_uploads[i].type : i \in 1..Len(successful_uploads)}

\* C10: datapoints of a dataset are put into upload requests only when the
\* dataset's description was registered successfully and its time-series list
\* was retrieved afterwards; every uploaded datapoint is bound to an identifier
\* taken from the list the platform returned for that dataset, which is one the
\* platform assigned and never a locally generated placeholder identifier.
C10_UploadOnlyAfterRegistration ==
    \A type \in TypeSet :
        sent_rows[type] # <<>> =>
            /\ type \in RegisteredTypes
            /\ cde_series[type] # <<>>
            /\ timeseries_lists[type].asked
            /\ timeseries_lists[type].ok
            /\ \A i \in 1..Len(sent_rows[type]) :
                  /\ sent_rows[type][i].timeseries_id \in ListedIds(type)
                  /\ sent_rows[type][i].timeseries_id \notin PlaceholderIds

C10_Witness ==
    /\ upc = "done"
    /\ Len(successful_uploads) = 2
    /\ Len(sent_rows["generation"]) = 2
    /\ sent_rows["generation"][1].timeseries_id = "cde-gen-1"
    /\ sent_rows["consumption"] = <<>>
    /\ timeseries_lists["consumption"].asked
    /\ ~timeseries_lists["consumption"].ok

\* ---------------------------------------------------------- batch upload
CeilDiv(n, d) == IF n % d = 0 THEN n \div d ELSE (n \div d) + 1

RECURSIVE ConcatBatches(_)
ConcatBatches(reqs) ==
    IF reqs = <<>> THEN <<>> ELSE Head(reqs).batch \o ConcatBatches(Tail(reqs))

\* A datapoint that has all of measurement, timestamp, value, unit and
\* time-series id.
IsComplete(dp) ==
    /\ dp.measurement # None
    /\ dp.timestamp # None
    /\ dp.value # None
    /\ dp.unit # None
    /\ dp.timeseries_id # None

RECURSIVE CountIncomplete(_)
CountIncomplete(dps) ==
    IF dps = <<>> THEN 0
    ELSE (IF IsComplete(Head(dps)) THEN 0 ELSE 1) + CountIncomplete(Tail(dps))

\* Encoded rows of the first k requests whose outcome (known so far) is a
\* failure, resp. a success.
RECURSIVE RowsWithOutcome(_, _, _)
RowsWithOutcome(reqs, outs, good) ==
    IF reqs = <<>> \/ outs = <<>> THEN 0
    ELSE (IF (Head(outs) \in {"200", "201"}) = good THEN Len(Head(reqs).rows) ELSE 0)
         + RowsWithOutcome(Tail(reqs), Tail(outs), good)

\* C11: the n datapoints are partitioned into ceil(n / batchSize) consecutive
\* groups that preserve the input order, each of 1..batchSize datapoints; one
\* upload request is issued per group, in order, and no group is requested a
\* second time, whatever the outcome of its request.
C11_OneRequestPerGroup ==
    /\ \A i \in 1..Len(b_requests) :
          /\ b_requests[i].batch_index = i - 1
          /\ Len(b_requests[i].batch) \in 1..b_batch_size
          /\ (i < Len(b_requests) => Len(b_requests[i].batch) = b_batch_size)
    /\ (bpc = "returned" =>
          /\ Len(b_requests) = CeilDiv(Len(b_datapoints), b_batch_size)
          /\ ConcatBatches(b_requests) = b_datapoints
          /\ Len(b_outcomes) = Len(b_requests))

C11_Witness ==
    /\ bpc = "returned"
    /\ Len(b_datapoints) = 3
    /\ b_batch_size = 2
    /\ Len(b_requests) = 2
    /\ Len(b_requests[2].batch) = 1
    /\ b_outcomes = <<"RequestException", "200">>

\* C12: every datapoint missing one of the five fields is left out of the
\* encoded payload of its group and is counted as failed before the group's
\* request is answered, whatever that answer is: while a request is pending and
\* afterwards, `failed` holds the incomplete datapoints of all groups encoded
\* so far plus the rows of the requests that failed.
C12_MissingFieldsFailBeforeCall ==
    /\ \A i \in 1..Len(b_requests) :
          /\ b_requests[i].rows = SelectSeq(b_requests[i].batch, IsComplete)
          /\ b_requests[i].failed_before >=
                CountIncomplete(b_requests[i].batch)
    /\ (bpc \in {"loop", "posting", "returned"} =>
          total_failed = CountIncomplete(ConcatBatches(b_requests))
                         + RowsWithOutcome(b_requests, b_outcomes, FALSE))

\* a batch of 3 datapoints, 1 lacking `unit`: 2 rows in the payload, 1 failed
\* while the request is still pending
C12_Witness ==
    /\ bpc = "posting"
    /\ b_batch_size = 3
    /\ Len(b_datapoints) = 3
    /\ b_datapoints[2].unit = None
    /\ IsComplete(b_datapoints[1]) /\ IsComplete(b_datapoints[3])
    /\ Len(b_requests) = 1
    /\ Len(b_requests[1].rows) = 2
    /\ total_failed = 1
    /\ total_success = 0

\* C13: when the request of a group raises a transport error or is answered
\* with a status other than 200/201, all encoded rows of the group are added
\* to `failed` and none to `success`, and the loop goes on with the next
\* group; when it is answered 200 or 201 all encoded rows are added to
\* `success`.
C13_GroupOutcomeCounts ==
    [][bpc = "posting" =>
         LET outcome == b_outcomes'[Len(b_outcomes')]
             rows == Len(b_requests[Len(b_requests)].rows)
         IN /\ Len(b_outcomes') = Len(b_outcomes) + 1
            /\ bpc' = "loop"
            /\ batch_index' = batch_index + 1
            /\ IF outcome \in {"200", "201"}
               THEN total_success' = total_success + rows /\ total_failed' = total_failed
               ELSE total_failed' = total_failed + rows /\ total_success' = total_success]_vars

C13_Witness ==
    /\ bpc = "returned"
    /\ b_batch_size = 1
    /\ b_outcomes = <<"RequestException", "500", "201">>
    /\ \A i \in 1..3 : IsComplete(b_datapoints[i])
    /\ b_result.success = 1
    /\ b_result.failed = 2

\* C14: the returned UploadResult has success >= 0, failed >= 0 and
\* success + failed <= total, and failed = 0 whenever every input datapoint has
\* all five fields and every request was answered 200 or 201.
C14_UploadResultInvariant ==
    b_result.returned =>
        /\ b_result.success >= 0
        /\ b_result.failed >= 0
        /\ b_result.total = Len(b_datapoints)
        /\ b_result.success + b_result.failed <= b_result.total
        /\ ((/\ \A i \in 1..Len(b_datapoints) : IsComplete(b_datapoints[i])
             /\ \A j \in 1..Len(b_outcomes) : b_outcomes[j] \in {"200", "201"})
            => b_result.failed = 0)

C14_Witness ==
    /\ b_result.returned
    /\ Len(b_datapoints) = 3
    /\ b_batch_size = 2
    /\ \A i \in 1..3 : IsComplete(b_datapoints[i])
    /\ b_outcomes = <<"201", "200">>
    /\ b_result.success = 3
    /\ b_result.failed = 0

\* ---------------------------------------------------------- field mappers
\* The identifier of the last descriptor of `list` that the rule K sends to
\* `key`, None when there is none.
LastIdFor(list, key, K(_)) ==
    LET idxs == {i \in 1..Len(list) : K(list[i]) = key}
    IN IF idxs = {} THEN None
       ELSE list[CHOOSE i \in idxs : \A j \in idxs : j <= i].id

\* Generation/weather: field id first, field name when the id is in no table.
GenerationIdThenName(ts) ==
    IF GenerationById(ts.fieldId) # None THEN GenerationById(ts.fieldId)
    ELSE IF ts.name # None THEN GenerationByName(ts.name) ELSE None

\* ... for every descriptor that carries an identifier
C15_ClaimedKey(ts) == IF ts.id = None THEN None ELSE GenerationIdThenName(ts)

\* ... for every descriptor that carries an identifier and a field id
C15_AmendedKey(ts) ==
    IF ts.id = None \/ ~FieldIdTruthy(ts.fieldId) THEN None
    ELSE GenerationIdThenName(ts)

\* C15 (as stated): in the generation/weather mapper every descriptor is bound
\* by its field id when the id is in the id table, and every descriptor not
\* bound by id whose field name is present and in the name table is bound by
\* name.
C15_BoundByIdElseByName ==
    (mpc = "returned" /\ m_kind = "generation") =>
        \A i \in 1..Len(m_input) :
            LET key == C15_ClaimedKey(m_input[i])
            IN key # None =>
                  m_mapping[key] = LastIdFor(m_input, key, C15_ClaimedKey)

\* C15 (amended): the same for the descriptors that carry a field id; a
\* descriptor without field id (or with field id 0) or without identifier is
\* skipped and binds nothing, whatever its field name.
C15_BoundByIdElseByNameGivenId ==
    (mpc = "returned" /\ m_kind = "generation") =>
        /\ \A i \in 1..Len(m_input) :
              LET key == C15_AmendedKey(m_input[i])
              IN key # None =>
                    m_mapping[key] = LastIdFor(m_input, key, C15_AmendedKey)
        /\ \A key \in GenerationKeys :
              m_mapping[key] # None =>
                  \E i \in 1..Len(m_input) : C15_AmendedKey(m_input[i]) = key

C15_Witness ==
    /\ mpc = "returned"
    /\ m_kind = "generation"
    /\ m_input = << Descriptor("ts-A", FieldId("int", 1), "consumedEnergy", None, None),
                    Descriptor("ts-B", FieldId("int", 9), "outdoorTemperature", None, None) >>
    /\ m_mapping["generation"] = "ts-A"
    /\ m_mapping["outdoorTemperature"] = "ts-B"

\* MRAE and EDG: the field name a known name stands for
KnownName(kind, name) ==
    IF kind = "edg" THEN (IF name \in EdgKeys THEN name ELSE None)
    ELSE (IF name \in MraeKeys THEN name ELSE None)

\* MRAE and EDG: the field an integer id of the table stands for
KnownId(kind, fid) ==
    IF fid.style # "int" THEN None
    ELSE IF kind = "edg" THEN (IF fid.n \in {1, 2} THEN EdgFieldMap(fid.n) ELSE None)
    ELSE (IF fid.n = 1 THEN "consumedEnergy" ELSE None)

C16_ClaimedKey(ts) ==
    IF ts.id = None \/ ~FieldIdTruthy(ts.fieldId) THEN None
    ELSE IF KnownId(m_kind, ts.fieldId) # None THEN KnownId(m_kind, ts.fieldId)
    ELSE KnownName(m_kind, ts.name)

C16_IdOnlyKey(ts) ==
    IF ts.id = None THEN None ELSE KnownId(m_kind, ts.fieldId)

\* C16 (as stated): the MRAE and EDG mappers bind by field id and fall back to
\* the field name: a descriptor whose field id is in no table entry but whose
\* field name is a known name is bound.
C16_IdThenNameFallback ==
    (mpc = "returned" /\ m_kind \in {"mrae", "edg"}) =>
        \A i \in 1..Len(m_input) :
            LET key == C16_ClaimedKey(m_input[i])
            IN key # None => m_mapping[key] # None

\* C16 (amended): the MRAE and EDG mappers bind by integer field id only: a
\* descriptor is bound iff it has an identifier and its field id is an integer
\* key of the id table; a descriptor whose field id is in no table entry binds
\* nothing, even when its field name is a known name.
C16_IdOnlyNoFallback ==
    (mpc = "returned" /\ m_kind \in {"mrae", "edg"}) =>
        /\ \A i \in 1..Len(m_input) :
              C16_IdOnlyKey(m_input[i]) # None =>
                  m_mapping[C16_IdOnlyKey(m_input[i])] # None
        /\ \A key \in KeysOf(m_kind) :
              m_mapping[key] # None =>
                  \E i \in 1..Len(m_input) :
                      /\ C16_IdOnlyKey(m_input[i]) = key
                      /\ m_input[i].id = m_mapping[key]

C16_Witness ==
    /\ mpc = "returned"
    /\ m_kind = "edg"
    /\ m_input = << Descriptor("ts-A", FieldId("int", 9), "consumedEnergy", None, None),
                    Descriptor("ts-B", FieldId("int", 2), "generatedEnergy", None, None) >>
    /\ m_mapping["consumedEnergy"] = None
    /\ m_mapping["generatedEnergy"] = "ts-B"

\* The field a descriptor is bound to by the mapper in use
BoundKey(ts) ==
    IF m_kind = "generation" THEN C15_AmendedKey(ts) ELSE C16_IdOnlyKey(ts)

BoundNames == {BoundKey(m_input[i]) : i \in 1..Len(m_input)} \ {None}

C18_LastWriterWins ==
    mpc = "returned" =>
        \A key \in KeysOf(m_kind) :
            m_mapping[key] = LastIdFor(m_input, key, BoundKey)

C18_Witness ==
    /\ mpc = "returned"
    /\ m_kind = "edg"
    /\ Len(m_input) = 2
    /\ BoundKey(m_input[1]) = "consumedEnergy"
    /\ BoundKey(m_input[2]) = "consumedEnergy"
    /\ m_input[1].id = "ts-A"
    /\ m_input[2].id = "ts-B"
    /\ m_mapping["consumedEnergy"] = "ts-B"

\* C19: resolving the same descriptor list again gives the same mapping,
\* whatever lists were resolved in between.
C19_ResolveIsRepeatable ==
    \A i, j \in 1..Len(m_history) :
        m_history[i].input = m_history[j].input =>
            m_history[i].mapping = m_history[j].mapping

C19_Witness ==
    /\ Len(m_history) = 3
    /\ m_history[1].input = m_history[3].input
    /\ m_history[2].input # m_history[1].input
    /\ m_history[2].mapping # m_history[1].mapping
    /\ m_history[3].mapping = m_history[1].mapping

\* ---------------------------------------------------------- transformers
\* The (record, field) pair is emitted
Emits(record, field) ==
    /\ record.timestamp \notin {None, ""}
    /\ record.values[field.record_key] # None
    /\ t_mapping[field.cde_field] # None

\* The datapoints the claim expects for one record, field by field
RECURSIVE ExpectedOfRecord(_, _)
ExpectedOfRecord(record, fields) ==
    IF fields = <<>> THEN <<>>
    ELSE (IF Emits(record, Head(fields))
          THEN <<[measurement |-> Head(fields).measurement,
                  timeseries_id |-> t_mapping[Head(fields).cde_field]]>>
          ELSE <<>>)
         \o ExpectedOfRecord(record, Tail(fields))

RECURSIVE ExpectedDatapoints(_)
ExpectedDatapoints(records) ==
    IF records = <<>> THEN <<>>
    ELSE ExpectedOfRecord(Head(records), FIELD_MAPPINGS(t_kind))
         \o ExpectedDatapoints(Tail(records))

\* C20: a transformer emits a datapoint for a (record, field) pair exactly
\* when the record has a usable timestamp, the record's value for the field is
\* not null and the mapping has an entry for the field; the datapoints come in
\* record order, then field order, each bound to the mapping's identifier of
\* its field; a skipped pair changes nothing for the other pairs, and a call
\* whose records hold only numbers and nulls never raises.
WellFormedValues ==
    \A i \in 1..Len(t_records) : \A k \in DOMAIN t_records[i].values :
        t_records[i].values[k] # Malformed

C20_EmitsIffTimestampValueMapping ==
    /\ (tpc = "raised" => ~WellFormedValues)
    /\ tpc = "returned" =>
        /\ Len(t_datapoints) = Len(ExpectedDatapoints(t_records))
        /\ \A i \in 1..Len(t_datapoints) :
              /\ t_datapoints[i].measurement = ExpectedDatapoints(t_records)[i].measurement
              /\ t_datapoints[i].timeseries_id = ExpectedDatapoints(t_records)[i].timeseries_id
              /\ t_datapoints[i].timeseries_id # None

\* a record without timestamp, then a record with a zero value, a null value
\* and both fields mapped: exactly the zero is emitted
C20_Witness ==
    /\ tpc = "returned"
    /\ t_kind = "edg"
    /\ Len(t_records) = 2
    /\ t_records[1].timestamp = None
    /\ t_records[1].values["consumedEnergy"] = "1.5"
    /\ t_records[2].timestamp = TsDate
    /\ t_records[2].values["consumedEnergy"] = "0"
    /\ t_records[2].values["generatedEnergy"] = None
    /\ t_mapping["consumedEnergy"] # None
    /\ t_mapping["generatedEnergy"] # None
    /\ Len(t_datapoints) = 1
    /\ t_datapoints[1].value = "0.0"
    /\ t_datapoints[1].timeseries_id = t_mapping["consumedEnergy"]

\* ------------------------------------------- unmapped fields and the result
\* The pairs of a dataset's data that have a value and whose field the mapping
\* built from the listed series binds
MappedPairs(type) ==
    {i \in 1..Len(DataPairs(type)) :
        /\ DataPairs(type)[i].value # None
        /\ BuildMapping(type, timeseries_lists[type].list)[DataPairs(type)[i].key] # None}

UnmappedPairs(type) ==
    {i \in 1..Len(DataPairs(type)) :
        /\ DataPairs(type)[i].value # None
        /\ BuildMapping(type, timeseries_lists[type].list)[DataPairs(type)[i].key] = None}

\* C21: datapoints of fields without a mapping are excluded before batching:
\* the UploadResult's total is the number of datapoints of mapped fields only,
\* success and failed add up to it, and every row sent carries a bound identifier.
C21_UnmappedExcludedFromResult ==
    \A type \in TypeSet :
        datapoint_result[type].called =>
            /\ datapoint_result[type].total = Cardinality(MappedPairs(type))
            /\ datapoint_result[type].success + datapoint_result[type].failed
                  = datapoint_result[type].total
            /\ \A i \in 1..Len(sent_rows[type]) :
                  \E j \in MappedPairs(type) :
                      /\ sent_rows[type][i].measurement = DataPairs(type)[j].measurement
                      /\ sent_rows[type][i].timeseries_id =
                            BuildMapping(type, timeseries_lists[type].list)[DataPairs(type)[j].key]

\* the grid dataset with only its consumption series listed: the generation
\* datapoint is left out and the result counts one datapoint, none failed
C21_Witness ==
    /\ datapoint_result["edg"].called
    /\ UnmappedPairs("edg") # {}
    /\ datapoint_result["edg"].total = 1
    /\ datapoint_result["edg"].failed = 0
    /\ Len(sent_rows["edg"]) = 1

\* ------------------------------------------------ timestamp normalisation
\* The input timestamps of the emitted pairs, in emission order
RECURSIVE EmittedInputsOfRecord(_, _)
EmittedInputsOfRecord(record, fields) ==
    IF fields = <<>> THEN <<>>
    ELSE (IF Emits(record, Head(fields)) THEN <<record.timestamp>> ELSE <<>>)
         \o EmittedInputsOfRecord(record, Tail(fields))

RECURSIVE EmittedInputs(_)
EmittedInputs(records) ==
    IF records = <<>> THEN <<>>
    ELSE EmittedInputsOfRecord(Head(records), FIELD_MAPPINGS(t_kind))
         \o EmittedInputs(Tail(records))

\* The three cases the specification lists: date only, datetime without
\* zone, already ending in Z
ListedCasesHold(input, output) ==
    /\ input = TsDate => output = "2025-05-01T00:00:00Z"
    /\ input = TsNaive => output = "2025-05-01T00:00:00Z"
    /\ input = TsZ => output = input

\* C22 as stated: every datapoint of every transformer has a timestamp ending
\* in "Z"; date-only inputs get T00:00:00Z, zoneless datetimes get Z, inputs
\* ending in Z are unchanged.
ZonelessCaseHolds(input, output) ==
    input = TsSpace => output = "2025-05-01 06:30:00Z"

Unparseable == 0 - 1
parseTimestamp(ts) ==
    CASE ts \in {TsDate, TsNaive, TsZ, TsOffset} -> 0
      [] ts = TsSpace -> (6 * 3600) + (30 * 60)
      [] OTHER -> Unparseable

LacksUtcSuffix(ts) == ts \in {TsDate, TsNaive, TsSpace}

\* C23: normalisation preserves the instant: for every valid input timestamp
\* without UTC suffix, the normalised timestamp is a parseable ISO 8601
\* timestamp and parses to the instant of the input read as UTC.
C23_NormalizationPreservesInstant ==
    tpc = "returned" =>
        /\ Len(t_datapoints) = Len(EmittedInputs(t_records))
        /\ \A i \in 1..Len(t_datapoints) :
              LacksUtcSuffix(EmittedInputs(t_records)[i]) =>
                  /\ parseTimestamp(t_datapoints[i].timestamp) # Unparseable
                  /\ parseTimestamp(t_datapoints[i].timestamp)
                        = parseTimestamp(EmittedInputs(t_records)[i])

\* ------------------------------------------------------ grid aggregation
\* The normalised form of a row's timestamp
NormalizedTimestamp(ts) ==
    CASE ts \in {TsDate, TsNaive, TsZ} -> "2025-05-01T00:00:00Z"
      [] ts = TsNextDate -> "2025-05-02T00:00:00Z"
      [] OTHER -> ts

\* The float sum, in row order and starting from 0.0, of the values of the rows
\* of one measurement kind at one normalised timestamp
RECURSIVE SumOfKind(_, _, _, _)
SumOfKind(recs, timestamp, kind, acc) ==
    IF recs = <<>> THEN acc
    ELSE SumOfKind(Tail(recs), timestamp, kind,
            IF /\ NormalizedTimestamp(Head(recs).timestamp) = timestamp
               /\ Head(recs).measurement = kind
            THEN RoundToFloat(acc + Head(recs).value) ELSE acc)

\* The same sum in exact arithmetic
RECURSIVE ExactSumOfKind(_, _, _)
ExactSumOfKind(recs, timestamp, kind) ==
    IF recs = <<>> THEN 0
    ELSE ExactSumOfKind(Tail(recs), timestamp, kind)
         + (IF /\ NormalizedTimestamp(Head(recs).timestamp) = timestamp
               /\ Head(recs).measurement = kind
            THEN Head(recs).value ELSE 0)

TimestampsOf(recs) == {NormalizedTimestamp(recs[i].timestamp) : i \in 1..Len(recs)}

\* C24: aggregation returns exactly one record per distinct normalised
\* timestamp of the input rows; each record holds the sum over all buses of
\* the consumedEnergy values and of the generatedEnergy values at that
\* timestamp, and a kind without rows at that timestamp is 0.0, not absent.
C24_OneRecordPerTimestampWithSums ==
    gpc = "aggregated" =>
        /\ {g_result[i].timestamp : i \in 1..Len(g_result)} = TimestampsOf(g_records)
        /\ Len(g_result) = Cardinality(TimestampsOf(g_records))
        /\ \A i \in 1..Len(g_result) :
              /\ DOMAIN g_result[i] = {"timestamp", "consumedEnergy", "generatedEnergy"}
              /\ g_result[i].consumedEnergy =
                    SumOfKind(g_records, g_result[i].timestamp, "consumedEnergy", 0)
              /\ g_result[i].generatedEnergy =
                    SumOfKind(g_records, g_result[i].timestamp, "generatedEnergy", 0)

\* rows (Bus1, 2025-05-01T00:00:00, consumedEnergy, 10), (Bus2, same,
\* consumedEnergy, 5), (Bus3, same, generatedEnergy, 2) give the one record
\* {2025-05-01T00:00:00Z, 15.0, 2.0}
C24_Witness ==
    /\ gpc = "aggregated"
    /\ g_records = << CsvRecord("Bus1", TsNaive, "consumedEnergy", 10),
                      CsvRecord("Bus2", TsNaive, "consumedEnergy", 5),
                      CsvRecord("Bus3", TsNaive, "generatedEnergy", 2) >>
    /\ g_result = << [timestamp |-> "2025-05-01T00:00:00Z",
                      consumedEnergy |-> 15, generatedEnergy |-> 2] >>

\* C25 as stated: aggregating any reordering of the same rows gives the
\* identical output list: same records, same sums, same order.
C25_ReorderingGivesIdenticalOutput ==
    gpc = "again" => reordered_result = g_result

\* The sums of an output are the exact sums of the rows
SumsAreExact(recs, output) ==
    \A i \in 1..Len(output) :
        /\ output[i].consumedEnergy =
              ExactSumOfKind(recs, output[i].timestamp, "consumedEnergy")
        /\ output[i].generatedEnergy =
              ExactSumOfKind(recs, output[i].timestamp, "generatedEnergy")

\* C25, amended: aggregating any reordering of the same rows gives the same
\* timestamps in the same order, and the identical output list whenever no sum
\* was rounded in either order.
C25_ReorderingGivesSameOutputUpToRounding ==
    gpc = "again" =>
        /\ Len(reordered_result) = Len(g_result)
        /\ \A i \in 1..Len(g_result) :
              reordered_result[i].timestamp = g_result[i].timestamp
        /\ (SumsAreExact(g_records, g_result) /\ SumsAreExact(reordered, reordered_result))
              => reordered_result = g_result

\* rows of two days given latest first, then earliest first: the same two
\* records in the same order both times
C25_Witness ==
    /\ gpc = "again"
    /\ Len(g_records) = 3
    /\ g_records[1].timestamp = TsNextDate
    /\ g_records[2].timestamp = TsNaive
    /\ reordered # g_records
    /\ reordered[1].timestamp = TsNaive
    /\ Len(g_result) = 2
    /\ SumsAreExact(g_records, g_result)
    /\ reordered_result = g_result

\* ------------------------------------------------------------ grid CSV load
\* A row parses: every column is there, the timestamp is one and the value is
\* a number
RowParses(row) ==
    /\ row.timestamp \notin {NoKey, None, Garbage}
    /\ row.value \notin {NoKey, None, "abc"}
    /\ row.unit \notin {NoKey, None}

\* Its date lies in [start, end)
RowInRange(row) ==
    /\ g_start # NoDate => DateOf(row.timestamp) >= g_start
    /\ g_end # NoDate => DateOf(row.timestamp) < g_end

ExpectedRows == {i \in 1..Len(csv_rows) : RowParses(csv_rows[i]) /\ RowInRange(csv_rows[i])}

\* C26: loading never aborts on a malformed row: a row with an unparseable
\* timestamp, an unparseable value or a missing column is skipped and
\* counted, and the load returns, in file order, exactly the rows that parse
\* and whose date lies in [start, end).
C26_LoadSkipsMalformedRows ==
    /\ gpc # "raised"
    /\ gpc \in {"loaded", "aggregated"} =>
          /\ Len(g_records) = Cardinality(ExpectedRows)
          /\ skipped_count = Len(csv_rows) - Cardinality(ExpectedRows)
          /\ \A i \in 1..Len(g_records) :
                \E j \in ExpectedRows :
                    /\ Cardinality({k \in ExpectedRows : k <= j}) = i
                    /\ g_records[i].timestamp = csv_rows[j].timestamp
                    /\ g_records[i].unit = csv_rows[j].unit

\* ------------------------------------------------------ malformed records
\* The pair is well formed, and its field is mapped
WellFormedPair(record, field) ==
    /\ record.timestamp # Garbage
    /\ record.values[field.record_key] # Malformed
    /\ Emits(record, field)

RECURSIVE WellFormedCountOfRecord(_, _)
WellFormedCountOfRecord(record, fields) ==
    IF fields = <<>> THEN 0
    ELSE (IF WellFormedPair(record, Head(fields)) THEN 1 ELSE 0)
         + WellFormedCountOfRecord(record, Tail(fields))

RECURSIVE WellFormedCount(_)
WellFormedCount(recs) ==
    IF recs = <<>> THEN 0
    ELSE WellFormedCountOfRecord(Head(recs), FIELD_MAPPINGS(t_kind))
         + WellFormedCount(Tail(recs))

\* C27: a record with a malformed numeric value or a malformed date/period is
\* skipped and the other records are still transformed: the transformation
\* never aborts, and its output holds the datapoints of the well-formed
\* records only.
C27_MalformedRecordsSkipped ==
    /\ tpc # "raised"
    /\ tpc = "returned" =>
          /\ Len(t_datapoints) = WellFormedCount(t_records)
          /\ \A i \in 1..Len(t_datapoints) :
                t_datapoints[i].timestamp # GarbageMidnightZ

\* ---------------------------------------------------------------- the run
\* The types registered downstream
RegisteredInRun == {successful_uploads[i].type : i \in 1..Len(successful_uploads)}

PlaceOf(type) == CHOOSE i \in 1..Len(selected) : selected[i] = type

\* Every query of the type has been made
FullyQueried(type) ==
    \A i \in 1..Len(QueriesOf(type)) :
        \E j \in 1..Len(queried) : queried[j] = QueriesOf(type)[i]

C30_HealthOrAuthFailureEndsRun ==
    (health_status = "down" \/ auth_status = "failed") =>
        /\ rpc \in {"exit", "error"}
        /\ queried = <<>>
        /\ datasets_to_process = <<>>
        /\ successful_uploads = <<>>
        /\ upc = "not_started"
        /\ \A type \in TypeSet :
              ~timeseries_lists[type].asked /\ ~datapoint_result[type].called
        /\ health_status = "down" => auth_status = "unknown"

\* the platform is healthy and the authentication fails
C30_Witness ==
    /\ health_status = "healthy"
    /\ auth_status = "failed"
    /\ rpc = "exit"

\* C31: the platform counts as reachable, and the run goes on past the health
\* check, only when the health endpoint answered 200 or 503; after any other
\* status, or no response, the run has ended without going further.
C31_ReachableOnlyOn200Or503 ==
    rpc \notin {"not_started", "health"} =>
        /\ health_status = "healthy" => health_response.status_code \in {200, 503}
        /\ health_response.status_code \notin {200, 503} =>
              /\ rpc \in {"exit", "error"}
              /\ auth_status = "unknown"
              /\ queried = <<>>

\* C32: the date range get_date_range_input returns always has start <= end,
\* whatever dates are given on the command line or typed at the prompts.
C32_StartNotAfterEnd ==
    dpc = "returned" => range_start <= range_end

\* a start given after the end on the command line, returned swapped
C32_Witness ==
    /\ dpc = "returned"
    /\ non_interactive
    /\ start_date_str = TsLateDate
    /\ end_date_str = TsDate
    /\ range_start = 1
    /\ range_end = LateDay

\* C33: for the EDG and the MRAE builder and every date range, the returned
\* description has exactly one time-series placeholder per field of the
\* catalog, in catalog order and carrying that field's numeric id, and the
\* placeholder identifiers are pairwise distinct.
C33_OnePlaceholderPerField ==
    kpc = "returned" =>
        LET series == dataset_definition.timeSeries
            catalog == FIELD_DEFINITIONS(k_kind)
        IN /\ Len(series) = Len(catalog)
           /\ Len(series) = Len(dataset_definition.datasetFields)
           /\ \A i \in 1..Len(series) :
                 /\ series[i].datasetFieldID = catalog[i].field_id
                 /\ series[i].datasetFieldID =
                       dataset_definition.datasetFields[i].datasetFieldID
           /\ \A i, j \in 1..Len(series) :
                 i # j => /\ series[i].timeSeriesId # series[j].timeSeriesId
                          /\ series[i].id # series[j].id

\* the EDG description, with its two placeholders
C33_Witness ==
    /\ kpc = "returned"
    /\ k_kind = "edg"
    /\ Len(dataset_definition.timeSeries) = 2
    /\ k_start.year # k_end.year

\* main has returned: after a failure, a declined confirmation or an
\* exception, or at the end of the upload phase
RunEnded == rpc \in {"exit", "error"} \/ upc \in {"exit", "done"}

\* C34: when the run ends, normally or by an error, no HTTP session opened
\* by the program is still open.
C34_NoSessionOpenAtEnd ==
    RunEnded => open_sessions = {}

\* C35: a run started with --delete-dataset or --delete-all-datasets skips
\* data retrieval: after the health check it only makes deletion requests
\* and returns, with no upstream authentication, no upstream query, no
\* registration and no datapoint upload.
C35_DeletionRunSkipsRetrieval ==
    (delete_dataset # None \/ delete_all_datasets) =>
        /\ rpc \in {"health", "delete", "exit", "error"}
        /\ auth_status = "unknown"
        /\ queried = <<>>
        /\ datasets_to_process = <<>>
        /\ successful_uploads = <<>>
        /\ \A type \in TypeSet :
              ~timeseries_lists[type].asked /\ ~datapoint_result[type].called

\* the same for an ID that is not empty and for --delete-all-datasets
C35_NonEmptyIdSkipsRetrieval ==
    delete_dataset # "" => C35_DeletionRunSkipsRetrieval

\* The datapoints of the batches 0 .. index0 - 1
CoveredBy(index0) ==
    IF index0 * b_batch_size < Len(b_datapoints)
    THEN index0 * b_batch_size ELSE Len(b_datapoints)

\* C36: add_datapoints_batch counts every input datapoint exactly once, as
\* success or as failed: between two batches the counters add up to the
\* datapoints of the batches done, and the returned counters satisfy
\* success + failed = total = the number of input datapoints.
C36_EveryDatapointCountedOnce ==
    /\ bpc = "loop" => total_success + total_failed = CoveredBy(batch_index)
    /\ b_result.returned =>
          /\ b_result.total = Len(b_datapoints)
          /\ b_result.success + b_result.failed = b_result.total

\* three datapoints in batches of two, the first lacking its unit, the second
\* request refused: 1 succeeded, 2 failed
C36_Witness ==
    /\ b_result.returned
    /\ b_batch_size = 2
    /\ Len(b_datapoints) = 3
    /\ b_datapoints[1].unit = None
    /\ IsComplete(b_datapoints[2]) /\ IsComplete(b_datapoints[3])
    /\ b_outcomes = <<"200", "500">>
    /\ b_result.success = 1
    /\ b_result.failed = 2

\* ------------------------------------------------------- the upload phase
\* The registration loop has passed the i-th description
RegistrationLoopPast(i) ==
    \/ upc = "register" /\ idx > i
    \/ upc \in {"datapoints", "done"}
    \/ upc = "exit" /\ idx > Len(datasets_to_process)

\* The registration request of `type` was made and failed
RegistrationFailed(type) ==
    \E i \in 1..Len(datasets_to_process) :
        /\ datasets_to_process[i].type = type
        /\ datasets_to_process[i].has_file_path
        /\ RegistrationLoopPast(i)
        /\ cde_series[type] = <<>>

\* The time-series list of `type` was asked for and not obtained
ListingFailed(type) ==
    /\ timeseries_lists[type].asked
    /\ timeseries_lists[type].list = <<>>

\* C37: a dataset whose registration request failed never has its time
\* series fetched or datapoints uploaded, while the datasets registered in the
\* same run go on to the datapoint upload; a dataset whose time-series list
\* could not be retrieved has no datapoints uploaded, and the datasets after
\* it are still processed.
C37_FailureSkipsOnlyThatDataset ==
    /\ \A type \in TypeSet :
          /\ RegistrationFailed(type) =>
                /\ ~timeseries_lists[type].asked
                /\ ~datapoint_result[type].called
          /\ ListingFailed(type) => ~datapoint_result[type].called
          /\ timeseries_lists[type].asked => cde_series[type] # <<>>
    /\ upc = "done" =>
          \A type \in TypeSet :
              cde_series[type] # <<>> => timeseries_lists[type].asked

\* consumption fails to register, the time-series list of generation cannot
\* be retrieved, and the datapoints of MRAE are uploaded in the same run
C37_Witness ==
    /\ upc = "done"
    /\ RegistrationFailed("consumption")
    /\ ListingFailed("generation")
    /\ ~datapoint_result["generation"].called
    /\ datapoint_result["mrae"].called

\* C38: in attended mode a declined confirmation stops what it governs: after
\* "upload" is declined no dataset is registered, after "datapoints" is
\* declined no time series is fetched and no datapoint uploaded, and a dataset
\* whose save was declined is never registered, whatever happens to the
\* others.
C38_DeclinedConfirmationStopsMutation ==
    /\ declined # {} => ~NON_INTERACTIVE_MODE
    /\ "upload" \in declined =>
          /\ successful_uploads = <<>>
          /\ \A type \in TypeSet :
                /\ cde_series[type] = <<>>
                /\ ~timeseries_lists[type].asked
                /\ ~datapoint_result[type].called
    /\ "datapoints" \in declined =>
          \A type \in TypeSet :
              ~timeseries_lists[type].asked /\ ~datapoint_result[type].called
    /\ \A type \in TypeSet \cap declined :
          /\ cde_series[type] = <<>>
          /\ type \notin RegisteredInRun

\* the save of consumption is declined, generation is saved and registered,
\* then the datapoint upload is declined
C38_Witness ==
    /\ declined = {"consumption", "datapoints"}
    /\ cde_series["generation"] # <<>>
    /\ "generation" \in RegisteredInRun
    /\ upc = "exit"

\* ------------------------------------------------------- chunked requests
\* The query document inside a request
QueryOfRequest(request) ==
    IF c_kind = "consumption" THEN request["query"] ELSE request["query"].json

\* C39: every request of a chunked query carries the caller's query with
\* only the datetime bounds replaced by the chunk's start and end: the other
\* filters, the limit, the sort key and (for consumption) the eumed flag are
\* those of the caller, and the caller's document is left as it was.
C39_ChunkRequestDiffersOnlyInBounds ==
    cpc # "not_called" =>
        LET key == DatetimeKey(c_kind)
        IN /\ base_query = query_given
           /\ \A i \in 1..Len(chunk_requests) :
                 LET request == chunk_requests[i]
                     chunk_query == QueryOfRequest(request)
                     chunk_start == query_given[key].gte + (i - 1) * chunk_size_days
                 IN /\ DOMAIN chunk_query = DOMAIN query_given
                    /\ \A k \in DOMAIN chunk_query \ {key} :
                          chunk_query[k] = query_given[k]
                    /\ chunk_query[key].gte = chunk_start
                    /\ chunk_query[key].lt =
                          Min(chunk_start + chunk_size_days, query_given[key].lt)
                    /\ request["limit"] = c_limit
                    /\ IF Truthy(c_sort)
                       THEN "sort" \in DOMAIN request /\ request["sort"] = c_sort
                       ELSE "sort" \notin DOMAIN request
                    /\ c_kind = "consumption" => request["eumed"] = c_eumed

\* a consumption query with another filter and a sort key, sent in three chunks
C39_Witness ==
    /\ cpc = "returned"
    /\ c_kind = "consumption"
    /\ Len(chunk_requests) = 3
    /\ "user_id" \in DOMAIN query_given
    /\ c_sort = "+datetime"

====
